---- MODULE Spec2Model ----
(***************************************************************************)
(* A model of pdf2pdfocr.py: the batch loop of __main__, the per-document  *)
(* pipeline Pdf2PdfOcr.ocr with its fatal paths, cleanup and the overall   *)
(* timeout (specification Spec), and the page-level stages of one document *)
(* (specification SpecPages).                                              *)
(***************************************************************************)
EXTENDS Integers, Sequences, FiniteSets, TLC

\* Number of inputs in file_to_process_list.
NumDocs == 2

Docs == 1..NumDocs

\* Number of documents of a batch whose --timeout expires.
MaxTimeouts == 1

(***************************************************************************)
(* Inputs: command line arguments, installed tools, input files.           *)
(***************************************************************************)

\* argparse defaults of the options the model reads. The other options keep
\* their defaults throughout: autorotate, create_text_mode, check_text_mode,
\* check_protection_mode and the size and page limits are off.
DefaultArgs ==
  [keep_temps |-> FALSE, timeout |-> FALSE, force_rebuild_mode |-> FALSE,
   use_deskew_mode |-> FALSE, ignore_existing_text |-> FALSE,
   ocr_engine |-> "tesseract", text_generation_strategy |-> "tesseract",
   output_file |-> "", output_dir |-> "",
   safe_mode |-> FALSE, create_text_mode |-> FALSE]

\* What shutil.which finds: the required tools, qpdf, the pdf2ps/ps2pdf pair.
AllTools == [required_tools |-> TRUE, qpdf |-> TRUE, repair_tools |-> TRUE]
NoQpdf == [AllTools EXCEPT !.qpdf = FALSE]
NoRequiredTool == [AllTools EXCEPT !.required_tools = FALSE]
NoRepairTools == [AllTools EXCEPT !.repair_tools = FALSE]

\* Every mix of the flags the pipeline branches on, run without a timeout.
PlainRuns ==
  {<<[DefaultArgs EXCEPT !.keep_temps = k, !.force_rebuild_mode = f,
                         !.use_deskew_mode = s, !.ignore_existing_text = i,
                         !.ocr_engine = e], AllTools>> :
     k \in BOOLEAN, f \in BOOLEAN, s \in BOOLEAN, i \in BOOLEAN,
     e \in {"tesseract", "no_ocr"}}

\* Runs under --timeout, with and without qpdf.
TimedRuns ==
  {<<[DefaultArgs EXCEPT !.timeout = TRUE], t>> : t \in {AllTools, NoQpdf}}

\* Option values that Pdf2PdfOcr.__init__ rejects or accepts, and missing tools.
OptionRuns ==
  {<<[DefaultArgs EXCEPT !.keep_temps = k, !.output_file = o[1], !.output_dir = o[2],
                         !.ocr_engine = o[3], !.text_generation_strategy = o[4]], t>> :
     k \in BOOLEAN, t \in {AllTools},
     o \in {<<"out.pdf", "", "tesseract", "tesseract">>, <<"", "dir", "tesseract", "tesseract">>,
            <<"out.pdf", "dir", "tesseract", "tesseract">>, <<"", "nodir", "tesseract", "tesseract">>,
            <<"", "", "bogus", "tesseract">>, <<"", "", "cuneiform", "bogus">>,
            <<"", "", "tesseract", "native">>}}
  \cup {<<[DefaultArgs EXCEPT !.keep_temps = k], t>> : k \in BOOLEAN,
                                                  t \in {NoQpdf, NoRequiredTool, NoRepairTools}}

\* Runs with -s (safe mode) and -w (text file next to the output PDF).
SafeRuns ==
  {<<[DefaultArgs EXCEPT !.safe_mode = o[1], !.create_text_mode = o[2]], AllTools>> :
     o \in {<<TRUE, FALSE>>, <<TRUE, TRUE>>, <<FALSE, TRUE>>}}

\* The command lines and tool installations of the model.
Scenarios == PlainRuns \cup TimedRuns \cup OptionRuns \cup SafeRuns

PDF == "application/pdf"

\* No such file.
NoFile ==
  [exists |-> FALSE, type |-> "", encrypted |-> FALSE, metadata |-> {},
   output |-> "absent", output_text |-> "absent"]

\* Input files of a batch. output says what is found at the path the output
\* will be written to: nothing, a stale file, or a directory; output_text the
\* same for the path of the text file.
PlainPdf ==
  [exists |-> TRUE, type |-> PDF, encrypted |-> FALSE,
   metadata |-> {"/Title", "/Producer"}, output |-> "stale", output_text |-> "absent"]
OutputIsDir == [PlainPdf EXCEPT !.metadata = {}, !.output = "dir"]
EncryptedPdf == [PlainPdf EXCEPT !.encrypted = TRUE, !.metadata = {"/Title"}, !.output = "absent"]
Tiff == [PlainPdf EXCEPT !.type = "image/tiff", !.metadata = {}]
TextFile == [PlainPdf EXCEPT !.type = "text/plain", !.metadata = {}, !.output = "absent"]

\* A PDF with a text file of an earlier run at output_file_text.
SidecarPdf == [PlainPdf EXCEPT !.metadata = {}, !.output = "absent", !.output_text = "stale"]

InputFiles == {NoFile, PlainPdf, OutputIsDir, EncryptedPdf, Tiff, TextFile}

\* The inputs of a batch: under --timeout, the files that reach the stages
\* in which the pipeline waits.
BatchFiles(a) ==
  IF a.timeout THEN {PlainPdf, Tiff}
  ELSE IF a.safe_mode \/ a.create_text_mode THEN {PlainPdf, SidecarPdf, [SidecarPdf EXCEPT !.output_text = "absent"]}
  ELSE InputFiles

VARIABLES
  args,         \* pdf2ocr_args, the same for every input of the batch
  env,          \* the tools found by check_external_tools
  idx,          \* position of the batch loop in file_to_process_list
  mainpc,       \* position of the main thread
  all_success,  \* all_success of __main__
  exit_status,  \* argument of sys.exit, -1 while the process runs
  doc,          \* the Pdf2PdfOcr object of each input, and its pipeline thread
  procs,        \* live child processes started with subprocess.Popen
  killLog,      \* <<a, b>>: a cleanup of document a killed a process of another document b
  pdf2ocr       \* SpecPages: the Pdf2PdfOcr object of one document, page by page

\* The state of the batch.
batch == <<args, env, idx, mainpc, all_success, exit_status, doc, procs, killLog>>

vars == <<args, env, idx, mainpc, all_success, exit_status, doc, procs, killLog, pdf2ocr>>

\* Fields of a Pdf2PdfOcr object before __init__ ran.
NewDoc ==
  [file |-> NoFile,                   \* the entry of file_to_process_list
   tmp |-> "none",                    \* self.tmp_dir: none, exists, removed
   pool |-> "none",                   \* self.main_pool: none, alive, None
   pc |-> "new",                      \* the statement of ocr() the run is at
   status |-> "pending",              \* what the batch loop reported: ok, failed
   timed_out |-> FALSE,
   input_file_type |-> "",
   input_file_is_encrypted |-> FALSE,
   input_file_metadata |-> {},
   rebuild_pdf_from_images |-> FALSE,
   ocr_ignored |-> FALSE,
   artifacts |-> {},                  \* files of the workspace
   did |-> {},                        \* stages that have acted
   output |-> "absent",               \* what is at self.output_file
   output_text |-> "absent",          \* what is at self.output_file_text
   out_meta |-> {}]                   \* metadata keys of the written output

Init ==
  /\ \E s \in Scenarios : args = s[1] /\ env = s[2]
  /\ idx = 1
  /\ mainpc = "loop"
  /\ all_success = TRUE
  /\ exit_status = -1
  /\ doc = [d \in Docs |-> NewDoc]
  /\ procs = {}
  /\ killLog = {}
  /\ pdf2ocr = [pc |-> "none"]


(***************************************************************************)
(* Child processes and Pdf2PdfOcr.cleanup.                                 *)
(***************************************************************************)

\* A child process: "tool" is an external executable (pdftoppm, tesseract,
\* convert, qpdf, ...), "python" is the pdf2pdfocr_multibackground.py helper
\* started with sys.executable.
Proc(d, kind) == [owner |-> d, kind |-> kind]

\* cleanup, the loop over process.children(recursive=True): the children the
\* loop kills, out of the children P of the whole process.
KilledByCleanup(P) == {p \in P : p.kind # "python"}

\* The processes of other documents among those a cleanup of document d killed.
ForeignKills(d, killed) == {<<d, p.owner>> : p \in {q \in killed : q.owner # d}}

\* cleanup, the pool and the temp files of the object itself.
AfterCleanup(r) ==
  [r EXCEPT !.pool = IF @ = "alive" THEN "None" ELSE @,
            !.tmp = IF args.keep_temps THEN @ ELSE "removed",
            !.artifacts = IF args.keep_temps THEN @ ELSE {}]

(***************************************************************************)
(* Outcomes of one step of the pipeline of document d: the object after    *)
(* the step, the processes started and reaped, and whether self.cleanup()  *)
(* was called.                                                             *)
(***************************************************************************)
Go(r) == [rec |-> r, spawn |-> {}, reap |-> {}, cleanup |-> FALSE]

\* self.cleanup() followed by raise Pdf2PdfOcrException(...)
Fatal(r) == [rec |-> [r EXCEPT !.pc = "raised"], spawn |-> {}, reap |-> {}, cleanup |-> TRUE]

\* An exception that is not a Pdf2PdfOcrException leaves ocr().
Crash(r) == Go([r EXCEPT !.pc = "crashed"])

Start(r, p) == [rec |-> r, spawn |-> {p}, reap |-> {}, cleanup |-> FALSE]

Reaping(o, p) == [o EXCEPT !.reap = {p}]

\* What is left of a Pdf2PdfOcr object that nothing refers to any more (the
\* name pdf2ocr is bound to the next object and no thread runs its ocr()):
\* the workspace directory and the output on disk, and what the loop reported.
Dropped(r) ==
  [NewDoc EXCEPT !.pc = IF r.pc = "blocked" THEN "blocked" ELSE "dropped",
                 !.tmp = r.tmp, !.status = r.status, !.timed_out = r.timed_out,
                 !.output = r.output]

\* The thread of a document whose timeout was reported ends, or blocks for
\* good: nothing refers to the object any more.
Ended(r) ==
  IF r.timed_out /\ r.status = "failed" /\ r.pc \in {"done", "raised", "crashed", "blocked"}
  THEN Dropped(r) ELSE r

Apply(d, o) ==
  LET P1 == (procs \ o.reap) \cup o.spawn
      killed == IF o.cleanup THEN KilledByCleanup(P1) ELSE {}
  IN /\ procs' = P1 \ killed
     /\ killLog' = killLog \cup ForeignKills(d, killed)
     /\ doc' = [doc EXCEPT ![d] = Ended(IF o.cleanup THEN AfterCleanup(o.rec) ELSE o.rec)]
     /\ UNCHANGED <<args, env, idx, mainpc, all_success, exit_status, pdf2ocr>>

Terminal == {"done", "raised", "crashed"}

\* The pipeline of d is at statement s and its thread can run.
At(d, s) == mainpc # "exited" /\ doc[d].pc = s

(***************************************************************************)
(* Pdf2PdfOcr.__init__ and the batch loop.                                 *)
(***************************************************************************)

\* The checks of __init__ that raise Pdf2PdfOcrException.
InitError(a, f) ==
  \/ a.output_file # "" /\ a.output_dir # ""
  \/ a.output_dir = "nodir"
  \/ a.text_generation_strategy \notin {"tesseract", "native"}
  \/ a.ocr_engine \notin {"tesseract", "cuneiform", "no_ocr"}
  \/ ~f.exists

Rebind(D) ==
  [d \in Docs |-> IF d = idx - 1 /\ D[d].pc \in {"done", "raised", "crashed"}
                  THEN Dropped(D[d]) ELSE D[d]]

\* pdf2ocr = Pdf2PdfOcr(pdf2ocr_args, file_to_process)
Construct ==
  /\ mainpc = "loop" /\ idx \in Docs
  /\ \E f \in BatchFiles(args) :
       LET made == [doc[idx] EXCEPT !.file = f, !.output = f.output,
                                            !.output_text = f.output_text, !.tmp = "exists"]
       IN IF ~env.required_tools
          THEN \* check_external_tools: sys.exit(1)
               /\ doc' = Rebind([doc EXCEPT ![idx] = [made EXCEPT !.status = "failed"]])
               /\ mainpc' = "exited" /\ exit_status' = 1
               /\ UNCHANGED <<idx, all_success>>
          ELSE IF InitError(args, f)
          THEN \* raised in __init__, caught by the loop
               /\ doc' = Rebind([doc EXCEPT ![idx] = [made EXCEPT !.status = "failed", !.pc = "raised"]])
               /\ all_success' = FALSE /\ idx' = idx + 1
               /\ UNCHANGED <<mainpc, exit_status>>
          ELSE /\ doc' = Rebind([doc EXCEPT ![idx] = [made EXCEPT !.pool = "alive", !.pc = "validate"]])
               /\ mainpc' = IF args.timeout THEN "wait" ELSE "run"
               /\ UNCHANGED <<idx, all_success, exit_status>>
  /\ UNCHANGED <<args, env, procs, killLog, pdf2ocr>>

\* pdf2ocr.ocr() returned or raised (directly, or through future.result).
Collect ==
  /\ mainpc \in {"run", "wait"} /\ doc[idx].pc \in Terminal
  /\ CASE doc[idx].pc = "done" ->
            /\ doc' = [doc EXCEPT ![idx].status = "ok"]
            /\ idx' = idx + 1 /\ mainpc' = "loop"
            /\ UNCHANGED <<all_success, exit_status>>
       [] doc[idx].pc = "raised" ->
            /\ doc' = [doc EXCEPT ![idx].status = "failed"]
            /\ all_success' = FALSE /\ idx' = idx + 1 /\ mainpc' = "loop"
            /\ UNCHANGED exit_status
       [] doc[idx].pc = "crashed" ->
            \* no except clause matches: the interpreter prints the traceback and exits 1
            /\ doc' = [doc EXCEPT ![idx].status = "failed"]
            /\ mainpc' = "exited" /\ exit_status' = 1
            /\ UNCHANGED <<idx, all_success>>
  /\ UNCHANGED <<args, env, procs, killLog, pdf2ocr>>

\* future_pdf2ocr.result(timeout) raised futures.TimeoutError: the handler
\* calls pdf2ocr.cleanup() and raises Pdf2PdfOcrException, which the loop
\* catches. The thread that runs ocr() is not stopped.
Timeout ==
  /\ mainpc = "wait" /\ args.timeout /\ doc[idx].pc \notin Terminal
  /\ Cardinality({d \in Docs : doc[d].timed_out}) < MaxTimeouts
  /\ LET killed == KilledByCleanup(procs)
     IN /\ procs' = procs \ killed
        /\ killLog' = killLog \cup ForeignKills(idx, killed)
        /\ doc' = [doc EXCEPT ![idx] = [AfterCleanup(doc[idx]) EXCEPT !.timed_out = TRUE,
                                                                     !.status = "failed"]]
  /\ all_success' = FALSE /\ idx' = idx + 1 /\ mainpc' = "loop"
  /\ UNCHANGED <<args, env, exit_status, pdf2ocr>>

\* sys.exit(0) or sys.exit(1) after the loop
Finish ==
  /\ mainpc = "loop" /\ idx = NumDocs + 1
  /\ exit_status' = IF all_success THEN 0 ELSE 1
  /\ mainpc' = "exited"
  /\ UNCHANGED <<args, env, idx, all_success, doc, procs, killLog, pdf2ocr>>


(***************************************************************************)
(* The stages of Pdf2PdfOcr.ocr. Each operator gives the outcomes of the   *)
(* stage for document d, in the state the stage finds: a thread that was   *)
(* left running by the timeout finds main_pool None and, unless keep_temps *)
(* is set, the workspace removed.                                          *)
(***************************************************************************)
Mark(r, stage, next) == [r EXCEPT !.did = @ \cup {stage}, !.pc = next]

HasTmp(r) == r.tmp = "exists"

\* detect_file_type, and validate_pdf_input_file for a PDF
validate_pdf_input_file(d) ==
  LET f == doc[d].file
      r == Mark([doc[d] EXCEPT !.input_file_type = f.type], "validate", "check_rebuild_pdf")
  IN IF f.type = PDF
     THEN {Go([r EXCEPT !.input_file_is_encrypted = f.encrypted,
                        !.input_file_metadata = IF f.encrypted THEN {} ELSE f.metadata])}
     ELSE {Go(r)}

\* A rebuild condition without the deskew term: C5 does not hold for it.
RebuildConditionNoDeskew(r) ==
  \/ r.input_file_is_encrypted
  \/ r.input_file_type # PDF
  \/ args.force_rebuild_mode

\* The condition that selects the rebuild-from-images path.
RebuildCondition(r) ==
  \/ r.input_file_is_encrypted
  \/ r.input_file_type # PDF
  \/ args.use_deskew_mode
  \/ args.force_rebuild_mode

\* A check_rebuild_pdf that lets rebuild with ignore_existing_text pass: C6
\* does not hold for it.
check_rebuild_pdf_no_raise(d) ==
  {Go(Mark([doc[d] EXCEPT !.rebuild_pdf_from_images = RebuildCondition(doc[d])],
           "check_rebuild_pdf", "define_output_files"))}

check_rebuild_pdf(d) ==
  LET r == [doc[d] EXCEPT !.rebuild_pdf_from_images = RebuildCondition(doc[d])]
  IN IF r.rebuild_pdf_from_images /\ args.ignore_existing_text
     THEN {Fatal(Mark(r, "check_rebuild_pdf", "raised"))}
     ELSE {Go(Mark(r, "check_rebuild_pdf", "define_output_files"))}

\* define_output_files with only the output PDF looked at: C11 does not hold for it.
define_output_files_pdf_only(d) ==
  IF args.safe_mode /\ doc[d].output = "stale"
  THEN {Fatal(Mark(doc[d], "define_output_files", "raised"))}
  ELSE {Go(Mark(doc[d], "define_output_files", "initial_cleanup"))}

\* define_output_files: os.path.isfile of the two output paths under safe_mode
define_output_files(d) ==
  IF \/ args.safe_mode /\ doc[d].output = "stale"
     \/ args.safe_mode /\ args.create_text_mode /\ doc[d].output_text = "stale"
  THEN {Fatal(Mark(doc[d], "define_output_files", "raised"))}
  ELSE {Go(Mark(doc[d], "define_output_files", "initial_cleanup"))}

\* best_effort_remove(self.output_file): os.remove raises for a directory, and
\* only ENOENT is swallowed.
initial_cleanup(d) ==
  LET r == Mark(doc[d], "initial_cleanup", "convert_input_to_images")
  IN IF r.output = "dir" THEN {Crash(r)}
     ELSE {Go([r EXCEPT !.output = "absent",
                        !.output_text = IF args.create_text_mode THEN "absent" ELSE @])}

\* convert_input_to_images up to the Popen of the raster tool. The page count
\* is below 20 or unknown here: calculate_ranges returns None.
convert_input_to_images(d) ==
  LET r == Mark(doc[d], "convert_input_to_images", "raster_wait")
  IN IF r.input_file_type = PDF
     THEN \* do_pdftoimage opens its log file in tmp_dir before Popen
          IF HasTmp(r) THEN {Start(r, Proc(d, "tool"))} ELSE {Crash(r)}
     ELSE IF r.input_file_type \in {"image/tiff", "image/jpeg", "image/png"}
     THEN {Start(r, Proc(d, "tool"))}
     ELSE {Fatal(r)}

\* pimage.wait() / p.wait() returned: only the PDF branch looks at the code.
\* "raster_failed" in did records a return code other than 0.
raster_wait(d) ==
  LET p == Proc(d, "tool")
      r == [doc[d] EXCEPT !.pc = "check_blank_pages"]
      ok == [r EXCEPT !.artifacts = @ \cup {"images"}]
      nonzero == [r EXCEPT !.did = @ \cup {"raster_failed"}]
      failed == IF r.input_file_type = PDF THEN Fatal(nonzero) ELSE Go(nonzero)
  IN IF p \in procs /\ HasTmp(r)
     THEN {Reaping(Go(ok), p), Reaping(failed, p)}
     ELSE {Reaping(failed, p)}

\* check_blank_pages up to starmap_async: an empty map is ready at once.
check_blank_pages(d) ==
  LET r == Mark(doc[d], "check_blank_pages", "blank_wait")
  IN IF r.pool # "alive" THEN {Crash(r)}
     ELSE IF "images" \notin r.artifacts THEN {Go([r EXCEPT !.pc = "deskew"])}
     ELSE {Go(r)}

\* the wait loop of check_blank_pages and colors_size_pool_map.get(): with the
\* pool terminated the result never arrives
blank_wait(d) ==
  IF doc[d].pool = "alive" THEN {Go([doc[d] EXCEPT !.pc = "deskew"])}
  ELSE {Go([doc[d] EXCEPT !.pc = "blocked"])}

deskew(d) ==
  IF ~args.use_deskew_mode THEN {Go([doc[d] EXCEPT !.pc = "external_ocr"])}
  ELSE IF doc[d].pool # "alive" THEN {Crash(doc[d])}
  ELSE {Go(Mark(doc[d], "deskew", "external_ocr"))}

\* external_ocr up to starmap_async
external_ocr(d) ==
  IF args.ocr_engine \in {"cuneiform", "tesseract"}
  THEN LET r == Mark(doc[d], "external_ocr", "ocr_wait")
       IN IF r.pool # "alive" THEN {Crash(r)}
          ELSE IF "images" \in r.artifacts THEN {Start(r, Proc(d, "tool"))}
          ELSE {Go(r)}
  ELSE {Go([doc[d] EXCEPT !.ocr_ignored = TRUE, !.pc = "build_final_output"])}

\* the wait loop of external_ocr, left when the map is ready or main_pool is
\* None, then do_create_blank_pdf for the blank pages (if there are any)
ocr_wait(d) ==
  LET p == Proc(d, "tool")
      r == [doc[d] EXCEPT !.pc = "join_ocred_pdf", !.ocr_ignored = FALSE]
      pages == [r EXCEPT !.artifacts = @ \cup {"ocr_pages"}]
  IN (IF p \in procs /\ HasTmp(r) THEN {Reaping(Go(pages), p)} ELSE {})
       \cup {Reaping(Go(r), p)}
       \cup (IF HasTmp(r) THEN {} ELSE {Reaping(Crash(r), p)})

\* create_text_output: the text files of the pages written to output_file_text
create_text_output(r) ==
  IF args.create_text_mode THEN [r EXCEPT !.output_text = "written"] ELSE r

\* join_ocred_pdf, and create_text_output after it
join_ocred_pdf(d) ==
  LET r == Mark(doc[d], "join_ocred_pdf", "build_final_output")
  IN IF "ocr_pages" \in r.artifacts
     THEN {Go(create_text_output([r EXCEPT !.artifacts = @ \cup {"ocr"}]))}
     ELSE {Fatal(r)}

\* The process _merge_ocr starts: qpdf, or the compositing helper run by
\* path_this_python when qpdf is not available.
MergeProc(d) == Proc(d, IF env.qpdf THEN "tool" ELSE "python")

\* _merge_ocr up to Popen: the text PDF and the log file are opened first
merge_ocr(r, d, next) ==
  IF "ocr" \in r.artifacts /\ HasTmp(r)
  THEN {Start([r EXCEPT !.pc = next], MergeProc(d))}
  ELSE {Crash(r)}

\* shutil.copyfile(..., tmp_dir + prefix + "-OUTPUT.pdf")
copy_to_output(r) ==
  IF HasTmp(r)
  THEN {Go([r EXCEPT !.artifacts = @ \cup {"OUTPUT"}, !.pc = "final_check"])}
  ELSE {Crash(r)}

\* build_final_output up to the first wait
build_final_output(d) ==
  IF ~doc[d].rebuild_pdf_from_images
  THEN LET r == Mark(doc[d], "direct", "merge_wait")
       IN IF ~r.ocr_ignored THEN merge_ocr(r, d, "merge_wait") ELSE copy_to_output(r)
  ELSE \* rebuild_and_merge up to starmap_async(do_rebuild, ...)
       LET r == Mark(doc[d], "rebuild", "rebuild_wait")
       IN IF r.pool # "alive" THEN {Crash(r)}
          ELSE IF "images" \in r.artifacts THEN {Start(r, Proc(d, "tool"))}
          ELSE {Go(r)}

\* rebuild_and_merge from its wait loop on
rebuild_wait(d) ==
  LET p == Proc(d, "tool")
      r == doc[d]
      built == [r EXCEPT !.artifacts = @ \cup {"input_unprotected"}]
      merged == IF ~r.ocr_ignored THEN merge_ocr(built, d, "merge_wait") ELSE copy_to_output(built)
  IN (IF p \in procs /\ HasTmp(r) THEN {Reaping(o, p) : o \in merged} ELSE {})
       \cup {Reaping(Fatal(r), p)}

\* pqpdf.wait() / pmulti.wait() returned, in build_final_output or
\* rebuild_and_merge. "merge_failed" in did records that the merge left no
\* -OUTPUT.pdf.
merge_wait(d) ==
  LET p == MergeProc(d)
      r == doc[d]
      ok == [r EXCEPT !.artifacts = @ \cup {"OUTPUT"}, !.pc = "final_check"]
      none == [r EXCEPT !.did = @ \cup {"merge_failed"},
                        !.pc = IF r.rebuild_pdf_from_images THEN "final_check"
                               ELSE "try_repair_input_and_merge"]
  IN (IF p \in procs /\ HasTmp(r) THEN {Reaping(Go(ok), p)} ELSE {})
       \cup {Reaping(Go(none), p)}

\* try_repair_input_and_merge up to the Popen of pdf2ps
try_repair_input_and_merge(d) ==
  LET r == Mark(doc[d], "repair", "repair_wait")
  IN IF HasTmp(r) /\ env.repair_tools THEN {Start(r, Proc(d, "tool"))} ELSE {Crash(r)}

\* prepair1.wait(), ps2pdf, then _merge_ocr on the repaired file
repair_wait(d) ==
  LET p == Proc(d, "tool")
      r == doc[d]
      fixed == merge_ocr([r EXCEPT !.artifacts = @ \cup {"fixPDF"}], d, "repair_merge_wait")
      unfixed == IF env.qpdf THEN {Crash(r)} ELSE merge_ocr(r, d, "repair_merge_wait")
  IN {Reaping(o, p) : o \in (IF p \in procs /\ HasTmp(r) THEN fixed ELSE {}) \cup unfixed}

\* the wait of the retried merge
repair_merge_wait(d) ==
  LET p == MergeProc(d)
      r == [doc[d] EXCEPT !.pc = "final_check"]
  IN (IF p \in procs /\ HasTmp(r) /\ "fixPDF" \in r.artifacts
      THEN {Reaping(Go([r EXCEPT !.artifacts = @ \cup {"OUTPUT"}]), p)} ELSE {})
       \cup {Reaping(Go(r), p)}

\* the last check of build_final_output
final_check(d) ==
  IF "OUTPUT" \in doc[d].artifacts
  THEN {Go([doc[d] EXCEPT !.pc = "autorotate_final_output"])}
  ELSE {Fatal(doc[d])}

\* autorotate_final_output: both branches read -OUTPUT.pdf and leave -OUTPUT-ROTATED.pdf
autorotate_final_output(d) ==
  LET r == Mark(doc[d], "autorotate_final_output", "edit_producer")
  IN IF "OUTPUT" \in r.artifacts
     THEN {Go([r EXCEPT !.artifacts = (@ \ {"OUTPUT"}) \cup {"ROTATED"}])}
     ELSE {Crash(r)}

\* edit_producer: every key of input_file_metadata is copied, and /Producer set
edit_producer(d) ==
  LET r == Mark(doc[d], "edit_producer", "cleanup")
  IN IF "ROTATED" \in r.artifacts
     THEN {Go([r EXCEPT !.output = "written",
                        !.out_meta = r.input_file_metadata \cup {"/Producer"}])}
     ELSE {Crash(r)}

\* self.cleanup() at the end of ocr()
final_cleanup(d) ==
  {[rec |-> [doc[d] EXCEPT !.pc = "done"], spawn |-> {}, reap |-> {}, cleanup |-> TRUE]}

Validate == \E d \in Docs : At(d, "validate") /\ \E o \in validate_pdf_input_file(d) : Apply(d, o)
CheckRebuildPdf == \E d \in Docs : At(d, "check_rebuild_pdf") /\ \E o \in check_rebuild_pdf(d) : Apply(d, o)
DefineOutputFiles == \E d \in Docs : At(d, "define_output_files") /\ \E o \in define_output_files(d) : Apply(d, o)
InitialCleanup == \E d \in Docs : At(d, "initial_cleanup") /\ \E o \in initial_cleanup(d) : Apply(d, o)
ConvertInputToImages == \E d \in Docs : At(d, "convert_input_to_images") /\ \E o \in convert_input_to_images(d) : Apply(d, o)
RasterWait == \E d \in Docs : At(d, "raster_wait") /\ \E o \in raster_wait(d) : Apply(d, o)
CheckBlankPages == \E d \in Docs : At(d, "check_blank_pages") /\ \E o \in check_blank_pages(d) : Apply(d, o)
BlankWait == \E d \in Docs : At(d, "blank_wait") /\ \E o \in blank_wait(d) : Apply(d, o)
Deskew == \E d \in Docs : At(d, "deskew") /\ \E o \in deskew(d) : Apply(d, o)
ExternalOcr == \E d \in Docs : At(d, "external_ocr") /\ \E o \in external_ocr(d) : Apply(d, o)
OcrWait == \E d \in Docs : At(d, "ocr_wait") /\ \E o \in ocr_wait(d) : Apply(d, o)
JoinOcredPdf == \E d \in Docs : At(d, "join_ocred_pdf") /\ \E o \in join_ocred_pdf(d) : Apply(d, o)
BuildFinalOutput == \E d \in Docs : At(d, "build_final_output") /\ \E o \in build_final_output(d) : Apply(d, o)
RebuildWait == \E d \in Docs : At(d, "rebuild_wait") /\ \E o \in rebuild_wait(d) : Apply(d, o)
MergeWait == \E d \in Docs : At(d, "merge_wait") /\ \E o \in merge_wait(d) : Apply(d, o)
TryRepair == \E d \in Docs : At(d, "try_repair_input_and_merge") /\ \E o \in try_repair_input_and_merge(d) : Apply(d, o)
RepairWait == \E d \in Docs : At(d, "repair_wait") /\ \E o \in repair_wait(d) : Apply(d, o)
RepairMergeWait == \E d \in Docs : At(d, "repair_merge_wait") /\ \E o \in repair_merge_wait(d) : Apply(d, o)
FinalCheck == \E d \in Docs : At(d, "final_check") /\ \E o \in final_check(d) : Apply(d, o)
AutorotateFinalOutput == \E d \in Docs : At(d, "autorotate_final_output") /\ \E o \in autorotate_final_output(d) : Apply(d, o)
EditProducer == \E d \in Docs : At(d, "edit_producer") /\ \E o \in edit_producer(d) : Apply(d, o)
FinalCleanup == \E d \in Docs : At(d, "cleanup") /\ \E o \in final_cleanup(d) : Apply(d, o)

Next ==
  \/ Construct \/ Collect \/ Timeout \/ Finish
  \/ Validate \/ CheckRebuildPdf \/ DefineOutputFiles \/ InitialCleanup
  \/ ConvertInputToImages \/ RasterWait \/ CheckBlankPages \/ BlankWait
  \/ Deskew \/ ExternalOcr \/ OcrWait \/ JoinOcredPdf
  \/ BuildFinalOutput \/ RebuildWait \/ MergeWait
  \/ TryRepair \/ RepairWait \/ RepairMergeWait \/ FinalCheck
  \/ AutorotateFinalOutput \/ EditProducer \/ FinalCleanup

Spec == Init /\ [][Next]_vars


(***************************************************************************)
(* The page-level stages of one document (specification SpecPages): the    *)
(* input is an unencrypted PDF, the pool and every tool are available, and *)
(* the workers' results are drawn when the stage that collects them runs.  *)
(***************************************************************************)

\* Largest number of pages of the document.
MaxPages == 2

\* 72 points per inch, in do_create_blank_pdf.
PointsPerInch == 72

\* Image.size of a raster page, in pixels.
ImageSizes == {<<300, 600>>, <<600, 300>>}

\* Number of distinct colours of a raster page.
ImageColors == {1, 2, 300}

\* A raster page as written by pdftoppm.
Images == [ncolors : ImageColors, size : ImageSizes]

\* The options the page-level stages read.
PageConfigs ==
  [use_autorotate : BOOLEAN, use_deskew_mode : BOOLEAN,
   ocr_engine : {"tesseract", "no_ocr"}, image_resolution : {150, 300},
   tess_langs : {"por+eng"}]
  \cup [use_autorotate : {TRUE}, use_deskew_mode : {FALSE},
        ocr_engine : {"cuneiform"}, image_resolution : {300},
        tess_langs : {"por+eng", "eng"}]
  \cup [use_autorotate : {FALSE}, use_deskew_mode : {FALSE},
        ocr_engine : {"cuneiform"}, image_resolution : {150},
        tess_langs : {"eng"}]

\* The -b option and whether the page count of the input can be read before
\* the images exist (a PDF that PyPDF2 can count) or not (a damaged page
\* tree, an image input): [avoid_high_pages_mode, avoid_high_pages_pages, read].
PageLimits == {<<FALSE, 0, TRUE>>, <<TRUE, 1, TRUE>>, <<TRUE, 1, FALSE>>}

\* What tesseract --psm 0 leaves for a page: no .osd file, a file without a
\* Rotate entry, or a file with one.
OsdOutcomes ==
  {[file |-> FALSE, has_rotate |-> FALSE, Rotate |-> 0],
   [file |-> TRUE, has_rotate |-> FALSE, Rotate |-> 0]}
  \cup {[file |-> TRUE, has_rotate |-> TRUE, Rotate |-> a] : a \in {0, 90, 180}}

\* sorted(glob.glob(...)) over files named by page number.
RECURSIVE sorted(_)
sorted(S) ==
  IF S = {} THEN <<>>
  ELSE LET m == CHOOSE x \in S : \A y \in S : x <= y
       IN <<m>> \o sorted(S \ {m})

Range(q) == {q[i] : i \in DOMAIN q}

\* Fields of the Pdf2PdfOcr object before ocr() runs, with the files of its
\* workspace.
NewPages ==
  [pc |-> "validate_pdf_input_file",
   avoid_high_pages_mode |-> FALSE, avoid_high_pages_pages |-> 0,
   page_count_read |-> TRUE,           \* len(pdf_reader.pages) gave the count
   use_autorotate |-> FALSE, use_deskew_mode |-> FALSE,
   ocr_engine |-> "tesseract", image_resolution |-> 300,
   tess_langs |-> "por+eng",
   error |-> "",                       \* the Pdf2PdfOcrException raised
   images |-> <<>>,                    \* the page images on disk
   image_file_list |-> <<>>,
   input_file_number_of_pages |-> 0,   \* 0 is None: every input has a page
   blank_pages |-> <<>>,
   blank_pages_dimensions |-> <<>>,
   autorotate_jobs |-> <<>>,           \* image_list_for_autorotate_info, as dispatched
   deskew_jobs |-> <<>>,               \* image_list_for_deskew, as dispatched
   ocr_jobs |-> <<>>,                  \* image_list_for_external_ocr, as dispatched
   ocr_runs |-> <<>>,                  \* page -> number of runs of the OCR engine on it
   no_geometry |-> {},                 \* pages whose first run left no PDF or hOCR
   no_hocr |-> {},                     \* pages without PDF or hOCR after the last run
   osd |-> {},                         \* the .osd files: [page, has_rotate, Rotate]
   pdfs |-> {},                        \* the per-page .pdf files: [page, text, size]
   ocr_ignored |-> FALSE,
   ocr_pdf |-> <<>>,                   \* pages of -ocr.pdf
   output |-> <<>>,                    \* pages of -OUTPUT.pdf
   rotated |-> <<>>]                   \* pages of -OUTPUT-ROTATED.pdf

InitPages ==
  /\ args = DefaultArgs /\ env = AllTools
  /\ idx = 1 /\ mainpc = "run" /\ all_success = TRUE /\ exit_status = -1
  /\ doc = [d \in Docs |-> NewDoc] /\ procs = {} /\ killLog = {}
  /\ \E c \in PageConfigs : \E l \in PageLimits :
       pdf2ocr = [NewPages EXCEPT !.use_autorotate = c.use_autorotate,
                                  !.use_deskew_mode = c.use_deskew_mode,
                                  !.ocr_engine = c.ocr_engine,
                                  !.image_resolution = c.image_resolution,
                                  !.tess_langs = c.tess_langs,
                                  !.avoid_high_pages_mode = l[1],
                                  !.avoid_high_pages_pages = l[2],
                                  !.page_count_read = l[3]]

\* do_check_img_colors_size: im.getcolors() is None above 256 colours.
do_check_img_colors_size(im) ==
  [colors |-> IF im.ncolors > 256 THEN [none |-> TRUE, len |-> 0]
              ELSE [none |-> FALSE, len |-> im.ncolors],
   size |-> im.size]

\* is_blank of check_blank_pages
is_blank(color_size_info) ==
  ~color_size_info.colors.none /\ color_size_info.colors.len = 1

\* The image list without the blank-page filter: C8 does not hold for it.
not_blank_unfiltered(o) == o.image_file_list

\* [x for x in image_file_list if x not in self.blank_pages]
not_blank(o) ==
  LET keep(x) == x \notin Range(o.blank_pages)
  IN SelectSeq(o.image_file_list, keep)

\* The size in points that do_create_blank_pdf gives the blank page.
do_create_blank_pdf(param_dimensions, param_image_resolution) ==
  <<(param_dimensions[1] * PointsPerInch) \div param_image_resolution,
    (param_dimensions[2] * PointsPerInch) \div param_image_resolution>>

\* convert_input_to_images, the glob of ocr() and the page count
\* check_avoid_high_pages with the limit taken one page too high: C12 does
\* not hold for it.
check_avoid_high_pages_off_by_one(o) ==
  /\ o.input_file_number_of_pages # 0 /\ o.avoid_high_pages_mode
  /\ o.input_file_number_of_pages > o.avoid_high_pages_pages + 1

\* check_avoid_high_pages: TRUE when it calls cleanup() and raises
check_avoid_high_pages(o) ==
  /\ o.input_file_number_of_pages # 0 /\ o.avoid_high_pages_mode
  /\ o.input_file_number_of_pages > o.avoid_high_pages_pages

\* validate_pdf_input_file: the page count when it can be read, then
\* check_avoid_high_pages. ocr() skips it for an input that is not a PDF, whose
\* count stays None.
PageValidate ==
  /\ pdf2ocr.pc = "validate_pdf_input_file"
  /\ \E n \in 1..MaxPages :
       LET o == [pdf2ocr EXCEPT !.input_file_number_of_pages = IF pdf2ocr.page_count_read THEN n ELSE 0]
       IN pdf2ocr' = [o EXCEPT !.error = IF check_avoid_high_pages(o) THEN "high_pages" ELSE "",
                      !.pc = IF check_avoid_high_pages(o) THEN "raised"
                                      ELSE "convert_input_to_images"]
  /\ UNCHANGED batch

\* convert_input_to_images, image_file_list, the page count when validation
\* left it None, and check_avoid_high_pages (lines 705-710). A PDF of n pages
\* gives n images.
PageConvertInputToImages ==
  /\ pdf2ocr.pc = "convert_input_to_images"
  /\ \E n \in IF pdf2ocr.input_file_number_of_pages # 0
              THEN {pdf2ocr.input_file_number_of_pages} ELSE 1..MaxPages :
     \E ims \in [1..n -> Images] :
       LET image_file_list == sorted(DOMAIN ims)
           o == [pdf2ocr EXCEPT !.images = ims,
                                !.image_file_list = image_file_list,
                                !.input_file_number_of_pages =
                                   IF @ = 0 THEN Len(image_file_list) ELSE @]
       IN pdf2ocr' = [o EXCEPT !.error = IF check_avoid_high_pages(o) THEN "high_pages" ELSE "",
                      !.pc = IF check_avoid_high_pages(o) THEN "raised"
                                      ELSE "check_blank_pages"]
  /\ UNCHANGED batch

RECURSIVE blank_scan(_, _, _)
\* The loop of check_blank_pages from position i on: the blank pages and
\* their dimensions, appended in step.
blank_scan(o, blank_map_values, i) ==
  IF i > Len(o.image_file_list) THEN o
  ELSE LET color_size_info == blank_map_values[i]
           t_image == o.image_file_list[i]
       IN blank_scan(IF is_blank(color_size_info)
                     THEN [o EXCEPT !.blank_pages = Append(@, t_image),
                                    !.blank_pages_dimensions = Append(@, color_size_info.size)]
                     ELSE o,
                     blank_map_values, i + 1)

PageCheckBlankPages ==
  /\ pdf2ocr.pc = "check_blank_pages"
  /\ LET blank_map_values ==
           [i \in DOMAIN pdf2ocr.image_file_list |->
              do_check_img_colors_size(pdf2ocr.images[pdf2ocr.image_file_list[i]])]
     IN pdf2ocr' = [blank_scan(pdf2ocr, blank_map_values, 1) EXCEPT !.pc = "autorotate_info"]
  /\ UNCHANGED batch

\* autorotate_info: one do_autorotate_info per listed image, each leaving an
\* .osd file or not
PageAutorotateInfo ==
  /\ pdf2ocr.pc = "autorotate_info"
  /\ IF pdf2ocr.use_autorotate
     THEN LET jobs == not_blank(pdf2ocr)
          IN \E res \in [Range(jobs) -> OsdOutcomes] :
               pdf2ocr' = [pdf2ocr EXCEPT
                 !.autorotate_jobs = jobs,
                 !.osd = {[page |-> x, has_rotate |-> res[x].has_rotate, Rotate |-> res[x].Rotate] :
                            x \in {y \in Range(jobs) : res[y].file}},
                 !.pc = "deskew"]
     ELSE pdf2ocr' = [pdf2ocr EXCEPT !.pc = "deskew"]
  /\ UNCHANGED batch

PageDeskew ==
  /\ pdf2ocr.pc = "deskew"
  /\ pdf2ocr' = [pdf2ocr EXCEPT
       !.deskew_jobs = IF pdf2ocr.use_deskew_mode THEN not_blank(pdf2ocr) ELSE @,
       !.pc = "external_ocr"]
  /\ UNCHANGED batch

\* The page size of the PDF an OCR job writes: HocrTransform(..., 300) for
\* hOCR input, the size of the image at its own density for tesseract's PDF.
ocr_page_size(o, x) ==
  do_create_blank_pdf(o.images[x].size,
                      IF o.ocr_engine = "cuneiform" THEN 300 ELSE o.image_resolution)

\* The loop of external_ocr over enumerate(self.blank_pages)
blank_pdfs(o) ==
  {[page |-> o.blank_pages[i], text |-> FALSE,
    size |-> do_create_blank_pdf(o.blank_pages_dimensions[i], o.image_resolution)] :
     i \in DOMAIN o.blank_pages}

\* The pages of a job list on which a run of the OCR engine leaves nothing:
\* none, the first, or all of them.
OcrFailures(jobs) ==
  {{}} \cup (IF jobs = <<>> THEN {} ELSE {{jobs[1]}, Range(jobs)})

\* do_ocr_cuneiform runs the engine again with "eng" when the .hocr file is
\* missing and the language is another one; do_ocr_tesseract never does.
retries(o) == o.ocr_engine = "cuneiform" /\ o.tess_langs # "eng"

\* The page of the hOCR that do_ocr_cuneiform writes when there is none:
\* bbox 0 0 1700 2400 through HocrTransform at 300 dpi.
no_text_page(x) ==
  [page |-> x, text |-> FALSE,
   size |-> <<(1700 * PointsPerInch) \div 300, (2400 * PointsPerInch) \div 300>>]

\* The PDF files that the OCR jobs leave, failed the pages whose last run
\* left no PDF or hOCR: do_ocr_cuneiform writes the page without text for
\* them; do_ocr_tesseract raises in the pool worker (os.rename, HocrTransform)
\* or returns, the result is never fetched, and there is no PDF.
ocr_pdfs(o, jobs, failed) ==
  {[page |-> x, text |-> TRUE, size |-> ocr_page_size(o, x)] : x \in Range(jobs) \ failed}
    \cup (IF o.ocr_engine = "cuneiform" THEN {no_text_page(x) : x \in failed} ELSE {})

\* external_ocr: the OCR jobs of the pages that are not blank, then the PDFs
\* of the blank pages
PageExternalOcr ==
  /\ pdf2ocr.pc = "external_ocr"
  /\ IF pdf2ocr.ocr_engine \in {"cuneiform", "tesseract"}
     THEN LET jobs == not_blank(pdf2ocr)
          IN \E first \in OcrFailures(jobs) :
             \E last \in IF retries(pdf2ocr) THEN {first, {}} ELSE {first} :
               pdf2ocr' = [pdf2ocr EXCEPT
                 !.ocr_jobs = jobs,
                 !.ocr_runs = [x \in Range(jobs) |->
                                 IF retries(pdf2ocr) /\ x \in first THEN 2 ELSE 1],
                 !.no_geometry = first,
                 !.no_hocr = last,
                 !.pdfs = ocr_pdfs(pdf2ocr, jobs, last) \cup blank_pdfs(pdf2ocr),
                 !.ocr_ignored = FALSE,
                 !.pc = "join_ocred_pdf"]
     ELSE pdf2ocr' = [pdf2ocr EXCEPT !.ocr_ignored = TRUE, !.pc = "build_final_output"]
  /\ UNCHANGED batch

PageJoinOcredPdf ==
  /\ pdf2ocr.pc = "join_ocred_pdf"
  /\ LET text_pdf_file_list == sorted({f.page : f \in pdf2ocr.pdfs})
     IN IF Len(text_pdf_file_list) > 0
        THEN pdf2ocr' = [pdf2ocr EXCEPT
               !.ocr_pdf = [i \in DOMAIN text_pdf_file_list |->
                              CHOOSE f \in pdf2ocr.pdfs : f.page = text_pdf_file_list[i]],
               !.pc = "build_final_output"]
        ELSE pdf2ocr' = [pdf2ocr EXCEPT !.pc = "raised", !.error = "No PDF files generated after OCR"]
  /\ UNCHANGED batch

\* build_final_output: -OUTPUT.pdf has the pages of the input (or of the
\* images rebuilt), the i-th with the i-th page of -ocr.pdf merged in.
PageBuildFinalOutput ==
  /\ pdf2ocr.pc = "build_final_output"
  /\ pdf2ocr' = [pdf2ocr EXCEPT
       !.output = [i \in 1..pdf2ocr.input_file_number_of_pages |->
                     [page |-> i, rotate |-> 0,
                      text |-> /\ ~pdf2ocr.ocr_ignored
                               /\ i \in DOMAIN pdf2ocr.ocr_pdf
                               /\ pdf2ocr.ocr_pdf[i].text]],
       !.pc = "autorotate_final_output"]
  /\ UNCHANGED batch

\* rotate_value of one .osd file: getint('root', 'Rotate'), 0 without the entry
rotate_value(f) == IF f.has_rotate THEN f.Rotate ELSE 0

\* Rotation angles taken from the .osd files in the opposite order: C10 does
\* not hold for it.
rotation_angles_unsorted(o) ==
  LET list_osd == sorted({f.page : f \in o.osd})
  IN [i \in DOMAIN list_osd |->
        rotate_value(CHOOSE f \in o.osd : f.page = list_osd[Len(list_osd) + 1 - i])]

\* rotation_angles of autorotate_final_output, over list_osd in sorted order
rotation_angles(o) ==
  LET list_osd == sorted({f.page : f \in o.osd})
  IN [i \in DOMAIN list_osd |-> rotate_value(CHOOSE f \in o.osd : f.page = list_osd[i])]

PageAutorotateFinalOutput ==
  /\ pdf2ocr.pc = "autorotate_final_output"
  /\ LET list_osd == sorted({f.page : f \in pdf2ocr.osd})
         skip_autorotate ==
           pdf2ocr.use_autorotate /\ Len(list_osd) # pdf2ocr.input_file_number_of_pages
         angles == rotation_angles(pdf2ocr)
     IN IF pdf2ocr.use_autorotate /\ ~skip_autorotate
        THEN pdf2ocr' = [pdf2ocr EXCEPT
               !.rotated = [i \in DOMAIN pdf2ocr.output |->
                              [pdf2ocr.output[i] EXCEPT !.rotate = (@ + angles[i]) % 360]],
               !.pc = "done"]
        ELSE \* os.rename(param_source_file, param_dest_file)
             pdf2ocr' = [pdf2ocr EXCEPT !.rotated = pdf2ocr.output, !.pc = "done"]
  /\ UNCHANGED batch

NextPages ==
  \/ PageValidate \/ PageConvertInputToImages \/ PageCheckBlankPages \/ PageAutorotateInfo
  \/ PageDeskew \/ PageExternalOcr \/ PageJoinOcredPdf
  \/ PageBuildFinalOutput \/ PageAutorotateFinalOutput

SpecPages == InitPages /\ [][NextPages]_vars


(***************************************************************************)
(* Claims about the batch loop and the pipeline (specification Spec).      *)
(***************************************************************************)

\* The loop has reported document d as failed.
Failed(d) == doc[d].status = "failed"

\* C1: whenever a run has ended in a fatal error that was reported, its
\* workspace directory has been removed, unless keep-temp is set.
C1_WorkspaceRemovedBeforeReport ==
  \A d \in Docs : Failed(d) /\ ~args.keep_temps => doc[d].tmp = "removed"

\* C2: no cleanup of one document ever kills a process of another document.
C2_CleanupTouchesOwnDocumentOnly == killLog = {}

\* C3: when the process exits, every input has been processed, and the exit
\* status is 0 exactly if every input succeeded.
C3_BatchContinuesAndExitStatus ==
  mainpc = "exited" =>
    /\ \A d \in Docs : doc[d].status # "pending"
    /\ exit_status = 0 <=> \A d \in Docs : doc[d].status = "ok"

\* C4: in the step that surfaces a document's timeout failure, no process of
\* that document is alive, its pool is terminated, its workspace is removed
\* unless keep-temp is set, the failure is counted and the loop moves on.
C4_TimeoutTerminatesEverything ==
  [][\A d \in Docs :
       doc[d].status = "pending" /\ doc'[d].status = "failed" /\ doc'[d].timed_out
       => /\ \A p \in procs' : p.owner # d
          /\ doc'[d].pool # "alive"
          /\ args.keep_temps \/ doc'[d].tmp = "removed"
          /\ ~all_success' /\ idx' = d + 1]_vars

\* The inputs that select the rebuild path, read off the file and the options.
MustRebuild(f) ==
  f.encrypted \/ f.type # PDF \/ args.use_deskew_mode \/ args.force_rebuild_mode

\* C5: the direct merge and the rebuild never both run for a document; the
\* rebuild runs only if the input is encrypted, not a PDF, deskewed or forced,
\* the direct merge only otherwise; the decision, once taken, keeps that
\* value; and a written output went through exactly one of the two.
C5_OneMergeStrategy ==
  \A d \in Docs :
    LET r == doc[d]
    IN /\ ~({"direct", "rebuild"} \subseteq r.did)
       /\ "rebuild" \in r.did => MustRebuild(r.file)
       /\ "direct" \in r.did => ~MustRebuild(r.file)
       /\ "check_rebuild_pdf" \in r.did => (r.rebuild_pdf_from_images <=> MustRebuild(r.file))
       /\ "edit_producer" \in r.did /\ r.output = "written"
            => ("rebuild" \in r.did) # ("direct" \in r.did)

\* Witness of C5: an unencrypted PDF went through the rebuild and was written.
C5_Witness ==
  \E d \in Docs :
    /\ doc[d].output = "written" /\ "rebuild" \in doc[d].did
    /\ doc[d].file.type = PDF /\ ~doc[d].file.encrypted

\* C6: with the rebuild path selected and ignore-existing-text requested, no
\* stale output is removed, nothing is rasterized and no OCR is dispatched, and
\* the run is failed by check_rebuild_pdf with its workspace cleaned up.
C6_RebuildWithIgnoreTextFailsFirst ==
  \A d \in Docs :
    LET r == doc[d]
    IN "validate" \in r.did /\ MustRebuild(r.file) /\ args.ignore_existing_text
       => /\ r.did \subseteq {"validate", "check_rebuild_pdf"}
          /\ r.output = r.file.output
          /\ \A p \in procs : p.owner # d
          /\ "check_rebuild_pdf" \in r.did
               => r.pc = "raised" /\ r.pool = "None" /\ (args.keep_temps \/ r.tmp = "removed")

\* Witness of C6: a forced rebuild with ignore-existing-text was refused while
\* the stale output of the input is still in place.
C6_Witness ==
  \E d \in Docs :
    /\ args.ignore_existing_text /\ MustRebuild(doc[d].file)
    /\ doc[d].pc = "raised" /\ "check_rebuild_pdf" \in doc[d].did
    /\ doc[d].file.output = "stale" /\ doc[d].output = "stale"
    /\ Failed(d)

\* C7: an output written through the rebuild path holds no metadata entry of
\* the source document (the Producer entry is the tool's own).
C7_RebuildDiscardsMetadata ==
  \A d \in Docs :
    "rebuild" \in doc[d].did /\ doc[d].output = "written"
      => (doc[d].out_meta \ {"/Producer"}) \cap doc[d].file.metadata = {}


\* C11: under safe mode, for an input whose output PDF exists (or whose text
\* file exists when it is requested), both files are at all times as they were
\* found, and define_output_files fails the run before any later stage acts.
C11_SafeModeKeepsOutputs ==
  \A d \in Docs :
    LET r == doc[d]
    IN /\ args.safe_mode
       /\ r.file.output = "stale" \/ (args.create_text_mode /\ r.file.output_text = "stale")
       => /\ r.output = r.file.output /\ r.output_text = r.file.output_text
          /\ r.did \subseteq {"validate", "check_rebuild_pdf", "define_output_files"}
          /\ "define_output_files" \in r.did => r.pc = "raised"

\* Witness of C11: safe mode with the text file requested refused an input
\* whose only pre-existing output is the text file.
C11_Witness ==
  \E d \in Docs :
    /\ args.safe_mode /\ args.create_text_mode
    /\ doc[d].file.output = "absent" /\ doc[d].file.output_text = "stale"
    /\ doc[d].pc = "raised" /\ Failed(d) /\ doc[d].output_text = "stale"

\* C13: a document that failed after its primary merge left no output file
\* went through the repair path before, on the direct path and after a
\* rebuild alike; and the repair path is entered only after a primary merge
\* that left no output file.
C13_RepairBeforeFatalOnEveryPath ==
  \A d \in Docs :
    /\ (doc[d].pc = "raised" /\ "merge_failed" \in doc[d].did) => "repair" \in doc[d].did
    /\ "repair" \in doc[d].did => "merge_failed" \in doc[d].did

\* C16: after a rasterization call of a document returned a code other than
\* 0 (pdftoppm for a PDF, convert for an image input), the document has
\* failed and none of its later stages has run.
C16_RasterFailureFailsDocument ==
  \A d \in Docs :
    "raster_failed" \in doc[d].did =>
      /\ doc[d].pc = "raised"
      /\ doc[d].did \cap {"check_blank_pages", "deskew", "external_ocr", "join_ocred_pdf",
                          "direct", "rebuild", "repair", "autorotate_final_output",
                          "edit_producer"} = {}
      /\ doc[d].output # "written"

\* The stages of ocr() in the order of its statements; the three merge marks
\* (direct, rebuild, repair) belong to build_final_output.
StageOrder ==
  <<{"validate"}, {"check_rebuild_pdf"}, {"define_output_files"}, {"initial_cleanup"},
    {"convert_input_to_images"}, {"check_blank_pages"}, {"deskew"}, {"external_ocr"},
    {"join_ocred_pdf"}, {"direct", "rebuild"}, {"repair"}, {"autorotate_final_output"},
    {"edit_producer"}>>

StageRank(s) == CHOOSE i \in DOMAIN StageOrder : s \in StageOrder[i]

StagesOf(r) == {s \in r.did : \E i \in DOMAIN StageOrder : s \in StageOrder[i]}

\* C21: in every step, a stage that starts acting for a document is later in
\* the order of ocr() than every stage that has acted for it; a document is
\* reported (ok or failed) only with its pool torn down and, unless keep-temp
\* is set, its workspace removed; and no stage acts for a document that was
\* reported as failed.
C21_StagesInOrderTerminalThroughCleanup ==
  [][\A d \in Docs :
       LET new == StagesOf(doc'[d]) \ StagesOf(doc[d])
       IN /\ \A s \in new : \A t \in StagesOf(doc[d]) : StageRank(t) < StageRank(s)
          /\ doc[d].status = "pending" /\ doc'[d].status # "pending"
               => doc'[d].pool # "alive" /\ (args.keep_temps \/ doc'[d].tmp = "removed")
          /\ Failed(d) => new = {}]_vars

\* C25: in every step after the timeout of a document was reported, no stage
\* starts acting for that document, no process of it is started and its
\* output file is not written.
C25_NoProgressAfterTimeout ==
  [][\A d \in Docs :
       doc[d].timed_out /\ Failed(d) =>
         /\ StagesOf(doc'[d]) \subseteq StagesOf(doc[d])
         /\ {p \in procs' : p.owner = d} \subseteq procs
         /\ doc'[d].output = "written" => doc[d].output = "written"]_vars

\* C28: a document reported as failed has neither an output PDF nor a text
\* file written by its run at its output paths.
C28_FailedRunLeavesNoOutput ==
  \A d \in Docs :
    Failed(d) /\ "define_output_files" \in doc[d].did =>
      doc[d].output # "written" /\ doc[d].output_text # "written"

\* C29: without pdf2ps and ps2pdf, a document whose direct merge left no
\* output file does not end with an exception that the batch loop does not
\* catch; once it is reported as failed, its pool is torn down, its workspace
\* is removed unless keep-temp is set, and the loop is at the next input.
C29_MissingRepairToolsFailCleanly ==
  \A d \in Docs :
    /\ ~env.repair_tools /\ "merge_failed" \in doc[d].did
    /\ ~doc[d].rebuild_pdf_from_images
    => /\ doc[d].pc # "crashed"
       /\ Failed(d) => /\ doc[d].pool # "alive"
                       /\ args.keep_temps \/ doc[d].tmp = "removed"
                       /\ idx > d


(***************************************************************************)
(* Claims about the pages of one document (specification SpecPages).       *)
(***************************************************************************)

\* The pages of the document, once rasterized.
Pages == DOMAIN pdf2ocr.images

\* The raster image of page x has exactly one distinct colour.
OneColour(x) == pdf2ocr.images[x].ncolors = 1

\* How many times page x occurs in the job list q.
Count(q, x) == Cardinality({i \in DOMAIN q : q[i] = x})

OcrEnabled == pdf2ocr.ocr_engine \in {"tesseract", "cuneiform"}

\* The OCR stage has run.
OcrStageOver == pdf2ocr.pc \in {"join_ocred_pdf", "build_final_output", "autorotate_final_output", "done"}

\* The textless page for page x: its pixel size in points at the configured resolution.
TextlessSlot(x) ==
  [page |-> x, text |-> FALSE,
   size |-> <<(pdf2ocr.images[x].size[1] * PointsPerInch) \div pdf2ocr.image_resolution,
              (pdf2ocr.images[x].size[2] * PointsPerInch) \div pdf2ocr.image_resolution>>]

\* What C8 says of a one-colour page x: never dispatched, and with OCR enabled
\* its slot of the OCR layer is the textless page of its size: its page PDF,
\* which -ocr.pdf has at the position of that file among the page PDFs.
BlankPageSkipped(x) ==
  /\ Count(pdf2ocr.ocr_jobs, x) = 0
  /\ Count(pdf2ocr.deskew_jobs, x) = 0
  /\ Count(pdf2ocr.autorotate_jobs, x) = 0
  /\ OcrEnabled /\ OcrStageOver => {f \in pdf2ocr.pdfs : f.page = x} = {TextlessSlot(x)}
  /\ OcrEnabled /\ pdf2ocr.ocr_pdf # <<>> =>
       pdf2ocr.ocr_pdf[Cardinality({f \in pdf2ocr.pdfs : f.page <= x})] = TextlessSlot(x)

C9_MixedDocumentRotated ==
  pdf2ocr.pc = "done" /\ pdf2ocr.use_autorotate
  /\ (\E x \in Pages : OneColour(x)) /\ (\E x \in Pages : ~OneColour(x))
  => \A x \in Pages :
       IF OneColour(x)
       THEN pdf2ocr.rotated[x].rotate = 0 /\ ~pdf2ocr.rotated[x].text
       ELSE \A f \in pdf2ocr.osd : f.page = x => pdf2ocr.rotated[x].rotate = rotate_value(f)

\* C12: a document whose page count is known to exceed the -b limit has
\* failed, with no page dispatched to orientation detection, deskew or OCR and
\* no output page written; it failed at validation, before any image was
\* made, when the count was read there, and otherwise after rasterization
\* and before the blank-page scan.
C12_TooManyPagesFailsEarly ==
  LET o == pdf2ocr
  IN (o.avoid_high_pages_mode /\ o.input_file_number_of_pages # 0
        /\ o.input_file_number_of_pages > o.avoid_high_pages_pages)
     => /\ o.pc = "raised"
        /\ o.autorotate_jobs = <<>> /\ o.deskew_jobs = <<>> /\ o.ocr_jobs = <<>>
        /\ o.osd = {} /\ o.pdfs = {} /\ o.ocr_pdf = <<>> /\ o.output = <<>> /\ o.rotated = <<>>
        /\ o.blank_pages = <<>> /\ o.blank_pages_dimensions = <<>>
        /\ o.page_count_read <=> o.images = <<>>

\* Witness of C12: the count, not readable at validation, was taken from the
\* images (one of them blank), exceeds the limit and the run has failed.
C12_Witness ==
  /\ pdf2ocr.pc = "raised" /\ pdf2ocr.avoid_high_pages_mode /\ ~pdf2ocr.page_count_read
  /\ pdf2ocr.input_file_number_of_pages > pdf2ocr.avoid_high_pages_pages
  /\ \E x \in DOMAIN pdf2ocr.images : pdf2ocr.images[x].ncolors = 1

\* C18: for a page whose recognition left no geometry, the engine was run
\* once more (with "eng") when the language is another one and only once
\* otherwise; a page still without geometry has, as its page of the OCR layer,
\* an empty page of the size of the page; and the document does not fail for
\* want of OCR pages.
C18_OcrFailureAbsorbed ==
  \A x \in pdf2ocr.no_geometry :
    /\ pdf2ocr.ocr_runs[x] = IF pdf2ocr.tess_langs # "eng" THEN 2 ELSE 1
    /\ x \in pdf2ocr.no_hocr =>
         {f \in pdf2ocr.pdfs : f.page = x} =
           {[page |-> x, text |-> FALSE, size |-> ocr_page_size(pdf2ocr, x)]}
    /\ pdf2ocr.error # "No PDF files generated after OCR"

\* C26: once join_ocred_pdf has written -ocr.pdf, it has as many pages as
\* there are page images, blank or not, and its i-th page is the PDF of
\* page i, also when OCR jobs failed.
C26_OcrLayerHasEveryPage ==
  pdf2ocr.pc \in {"build_final_output", "autorotate_final_output"} /\ ~pdf2ocr.ocr_ignored =>
    /\ Len(pdf2ocr.ocr_pdf) = Len(pdf2ocr.images)
    /\ \A i \in DOMAIN pdf2ocr.ocr_pdf : pdf2ocr.ocr_pdf[i].page = i

\* C27: a page PDF with text made from hOCR and the PDF of a blank page of
\* the same document, from images of the same pixel size, have the same size
\* in points.
C27_OneConversionPerDocument ==
  \A f, g \in pdf2ocr.pdfs :
    /\ f.text /\ pdf2ocr.ocr_engine = "cuneiform"
    /\ \E i \in DOMAIN pdf2ocr.blank_pages : pdf2ocr.blank_pages[i] = g.page
    /\ pdf2ocr.images[f.page].size = pdf2ocr.images[g.page].size
    => f.size = g.size

\* The .osd file that is the i-th in sorted order.
NthRecord(i) ==
  CHOOSE f \in pdf2ocr.osd : Cardinality({g \in pdf2ocr.osd : g.page <= f.page}) = i

\* C10: if the number of orientation records differs from the page count, the
\* rotated output is the merged output, unchanged; if they are equal, the i-th
\* page of the merged output is rotated by the i-th record in sorted order.
C10_RotationAllOrNothing ==
  pdf2ocr.pc = "done" =>
    IF Cardinality(pdf2ocr.osd) # pdf2ocr.input_file_number_of_pages
    THEN pdf2ocr.rotated = pdf2ocr.output
    ELSE /\ Len(pdf2ocr.rotated) = Len(pdf2ocr.output)
         /\ \A i \in DOMAIN pdf2ocr.output :
              pdf2ocr.rotated[i] =
                [pdf2ocr.output[i] EXCEPT !.rotate = (@ + rotate_value(NthRecord(i))) % 360]

\* Witness of C10: two pages, two records with different angles, each page
\* rotated by its own.
C10_Witness ==
  /\ pdf2ocr.pc = "done" /\ Cardinality(pdf2ocr.osd) = 2
  /\ pdf2ocr.input_file_number_of_pages = 2
  /\ pdf2ocr.rotated[1].rotate = 90 /\ pdf2ocr.rotated[2].rotate = 180

(***************************************************************************)
(* _merge_ocr on its own (specification SpecMerge): the two PDFs of one    *)
(* merge, held in pdf2ocr, and the command that merges them.               *)
(***************************************************************************)

\* The batch loop at rest, for the specifications of one stage.
NoBatch ==
  /\ args = DefaultArgs /\ env \in {AllTools, NoQpdf}
  /\ idx = 1 /\ mainpc = "run" /\ all_success = TRUE /\ exit_status = -1
  /\ doc = [d \in Docs |-> NewDoc] /\ procs = {} /\ killLog = {}

\* mediaBox of a first page, as [width, height].
MediaBoxes == {<<200, 300>>, <<300, 200>>, <<300, 300>>, <<300, 400>>}

\* The three calls of _merge_ocr, by their tag.
MergeTags == {"final-output", "rebuild-merge", "repair_input"}

InitMerge ==
  /\ NoBatch
  /\ \E img \in MediaBoxes, txt \in MediaBoxes, readable \in BOOLEAN, tag \in MergeTags :
       pdf2ocr = [pc |-> "_merge_ocr", tag |-> tag,
                  image_pdf |-> [mediaBox |-> img, readable |-> readable],
                  text_pdf |-> [mediaBox |-> txt],
                  command |-> <<>>]

\* first_page_img_area: 0 after PdfReadError
first_page_img_area(image_pdf) ==
  IF image_pdf.readable THEN image_pdf.mediaBox[1] * image_pdf.mediaBox[2] ELSE 0

first_page_txt_area(text_pdf) == text_pdf.mediaBox[1] * text_pdf.mediaBox[2]

\* The choice of the option with <= for <: C14 does not hold for it.
qpdf_command_underlay_on_equal(txt_area, img_area) ==
  IF txt_area <= img_area
  THEN <<"--underlay", "image_pdf", "--", "text_pdf">>
  ELSE <<"--overlay", "text_pdf", "--", "image_pdf">>

\* qpdf_command, without the path of qpdf and the result file
qpdf_command(txt_area, img_area) ==
  IF txt_area < img_area
  THEN <<"--underlay", "image_pdf", "--", "text_pdf">>
  ELSE <<"--overlay", "text_pdf", "--", "image_pdf">>

\* pdf2pdfocr_multibackground.py image text result: what the helper does with
\* its two inputs, written as the qpdf command of the same effect.
multibackground(image_pdf, text_pdf) ==
  IF first_page_txt_area(text_pdf) < first_page_img_area(image_pdf)
  THEN <<"--underlay", "image_pdf", "--", "text_pdf">>
  ELSE <<"--overlay", "text_pdf", "--", "image_pdf">>

\* _merge_ocr with qpdf
MergeWithQpdf ==
  /\ pdf2ocr.pc = "_merge_ocr" /\ env.qpdf
  /\ pdf2ocr' = [pdf2ocr EXCEPT
       !.command = qpdf_command(first_page_txt_area(pdf2ocr.text_pdf),
                                first_page_img_area(pdf2ocr.image_pdf)),
       !.pc = "merged"]
  /\ UNCHANGED batch

\* _merge_ocr without qpdf
MergeWithHelper ==
  /\ pdf2ocr.pc = "_merge_ocr" /\ ~env.qpdf
  /\ pdf2ocr' = [pdf2ocr EXCEPT
       !.command = multibackground(pdf2ocr.image_pdf, pdf2ocr.text_pdf),
       !.pc = "merged"]
  /\ UNCHANGED batch

NextMerge == MergeWithQpdf \/ MergeWithHelper

SpecMerge == InitMerge /\ [][NextMerge]_vars

MaxPageCount == 30
MaxCpu == 32

\* Below this page count calculate_ranges returns None.
MinParallelPages == 20

\* input_file_number_of_pages is 0 for None; cpu_to_use is at least 1
\* (lines 581-583).
InitRanges ==
  /\ NoBatch
  /\ \E N \in 0..MaxPageCount, W \in 1..MaxCpu :
       pdf2ocr = [pc |-> "calculate_ranges",
                  input_file_number_of_pages |-> N, cpu_to_use |-> W,
                  parallel_page_ranges |-> [none |-> TRUE, result |-> <<>>],
                  calls |-> <<>>]           \* the calls of do_pdftoimage: [first_page, last_page]

\* math.ceil(a / b) for positive integers: the float quotient of two page
\* counts is exact enough for ceil to be the integer ceiling.
ceil(a, b) == (a + b - 1) \div b

\* range_end without "Handle last range": C15 does not hold for it.
range_end_unclamped(range_size, i, pages) == (range_size * i) + range_size

\* range_end of the i-th range (i from 0), after "Handle last range"
range_end(range_size, i, pages) ==
  LET e == (range_size * i) + range_size
  IN IF e > pages THEN pages ELSE e

RECURSIVE check_pages(_, _)
\* The loop "Check result" from position i on.
check_pages(result, i) ==
  IF i > Len(result) THEN 0
  ELSE (result[i][2] - result[i][1]) + 1 + check_pages(result, i + 1)

\* calculate_ranges: None, or the list of ranges; raised says that the check
\* at the end raises ArithmeticError.
calculate_ranges(pages, cpu_to_use) ==
  IF pages = 0 \/ pages < MinParallelPages
  THEN [none |-> TRUE, result |-> <<>>, raised |-> FALSE]
  ELSE LET range_size == ceil(pages, cpu_to_use)
           number_of_ranges == ceil(pages, range_size)
           result == [k \in 1..number_of_ranges |->
                        <<(range_size * (k - 1)) + 1, range_end(range_size, k - 1, pages)>>]
       IN [none |-> FALSE, result |-> result, raised |-> check_pages(result, 1) # pages]

\* parallel_page_ranges = self.calculate_ranges()
RangesCalculate ==
  /\ pdf2ocr.pc = "calculate_ranges"
  /\ LET r == calculate_ranges(pdf2ocr.input_file_number_of_pages, pdf2ocr.cpu_to_use)
     IN pdf2ocr' = [pdf2ocr EXCEPT
          !.parallel_page_ranges = [none |-> r.none, result |-> r.result],
          !.pc = IF r.raised THEN "ArithmeticError" ELSE "do_pdftoimage"]
  /\ UNCHANGED batch

\* The starmap over the ranges, or the one call without a range, for which
\* do_pdftoimage has first_page = last_page = 0.
RangesDispatch ==
  /\ pdf2ocr.pc = "do_pdftoimage"
  /\ pdf2ocr' = [pdf2ocr EXCEPT
       !.calls = IF pdf2ocr.parallel_page_ranges.none THEN << <<0, 0>> >>
                 ELSE pdf2ocr.parallel_page_ranges.result,
       !.pc = "converted"]
  /\ UNCHANGED batch

NextRanges == RangesCalculate \/ RangesDispatch

SpecRanges == InitRanges /\ [][NextRanges]_vars

\* C15: for a page count N >= 20 and W >= 1 workers the ranges are at most W,
\* start at page 1, end at page N, each begins right after the one before,
\* and each has between 1 and ceil(N/W) pages, and the check of the total
\* does not raise; for N < 20 or an unknown count there is no partition and
\* one call without a range is made.
C15_RangesPartitionThePages ==
  pdf2ocr.pc # "calculate_ranges" =>
    LET N == pdf2ocr.input_file_number_of_pages
        W == pdf2ocr.cpu_to_use
        none == pdf2ocr.parallel_page_ranges.none
        R == pdf2ocr.parallel_page_ranges.result
    IN /\ N >= 20 =>
            /\ ~none /\ pdf2ocr.pc # "ArithmeticError"
            /\ Len(R) >= 1 /\ Len(R) <= W
            /\ R[1][1] = 1 /\ R[Len(R)][2] = N
            /\ \A i \in 1..(Len(R) - 1) : R[i + 1][1] = R[i][2] + 1
            /\ \A i \in 1..Len(R) :
                 /\ R[i][2] - R[i][1] + 1 >= 1
                 /\ (R[i][2] - R[i][1] + 1) * W < N + W
       /\ N < 20 =>
            /\ none /\ pdf2ocr.pc # "ArithmeticError"
            /\ pdf2ocr.pc = "converted" => pdf2ocr.calls = << <<0, 0>> >>

\* Witness of C15: at least 20 pages were split into fewer ranges than
\* workers, the last range shorter than the first, and dispatched.
C15_Witness ==
  /\ pdf2ocr.pc = "converted" /\ pdf2ocr.input_file_number_of_pages >= 20
  /\ Len(pdf2ocr.calls) > 1 /\ Len(pdf2ocr.calls) < pdf2ocr.cpu_to_use
  /\ LET R == pdf2ocr.calls
     IN R[Len(R)][2] - R[Len(R)][1] < R[1][2] - R[1][1]

(***************************************************************************)
(* join_ocred_pdf and rebuild_and_merge up to -input_unprotected.pdf       *)
(* (specification SpecRebuild), for a document that is rebuilt from its    *)
(* images: the page PDFs of the OCR stage and the colours of the images    *)
(* are given, each do_rebuild job writes its PDF or does not.              *)
(***************************************************************************)

\* The three channels of an image after convert('RGB'), by their content:
\* a grey image, and two images with colour.
RgbImages == {<<0, 0, 0>>, <<0, 0, 1>>, <<0, 1, 0>>}

\* Values of -g: smart, the default, a preset name, parameters of convert.
ConvertParams == {"smart", "", "fast", "-compress Zip"}

InitRebuild ==
  /\ NoBatch
  /\ \E n \in 1..MaxPages : \E ims \in [1..n -> RgbImages] :
     \E g \in ConvertParams : \E ocred \in SUBSET (1..n) :
       pdf2ocr = [pc |-> "join_ocred_pdf", error |-> "",
                  images |-> ims,
                  convert_params_option |-> g,    \* args.convert_params
                  user_convert_params |-> g,
                  pdfs |-> {[page |-> x, text |-> TRUE] : x \in ocred},
                  ocr_pdf |-> <<>>,               \* pages of -ocr.pdf
                  result_check_img |-> <<>>,      \* one result for each image checked
                  rebuild_jobs |-> <<>>,          \* the do_rebuild calls: [page, convert_params]
                  rebuilt |-> {},                 \* the REBUILD_*.pdf files
                  input_unprotected |-> <<>>]     \* pages of -input_unprotected.pdf

\* The files appended in the order of glob, here the reverse of the sorted
\* one: C17 does not hold for it.
pdf_merger_unsorted(files) ==
  LET file_list == sorted({f.page : f \in files})
  IN [i \in DOMAIN file_list |->
        CHOOSE f \in files : f.page = file_list[Len(file_list) + 1 - i]]

\* sorted(glob.glob(...)) and pdf_merger.append of each file, each of one
\* page: the pages of the file written.
pdf_merger(files) ==
  LET file_list == sorted({f.page : f \in files})
  IN [i \in DOMAIN file_list |-> CHOOSE f \in files : f.page = file_list[i]]

\* join_ocred_pdf
RebuildJoinOcredPdf ==
  /\ pdf2ocr.pc = "join_ocred_pdf"
  /\ IF Cardinality(pdf2ocr.pdfs) > 0
     THEN pdf2ocr' = [pdf2ocr EXCEPT !.ocr_pdf = pdf_merger(pdf2ocr.pdfs),
                                     !.pc = "rebuild_and_merge"]
     ELSE pdf2ocr' = [pdf2ocr EXCEPT !.pc = "raised",
                                     !.error = "No PDF files generated after OCR"]
  /\ UNCHANGED batch

\* do_check_img_greyscale with the first comparison only: C19 does not hold for it.
do_check_img_greyscale_two_channels(rgb) == rgb[1] = rgb[2]

\* do_check_img_greyscale: the difference of channel 0 with channel 1 and
\* with channel 2 is 0 everywhere
do_check_img_greyscale(rgb) ==
  IF rgb[1] # rgb[2] THEN FALSE
  ELSE IF rgb[1] # rgb[3] THEN FALSE
  ELSE TRUE

\* The preset of a value of user_convert_params, or the value itself, and
\* preset_best for the empty string.
convert_params(user_convert_params) ==
  LET chosen == IF user_convert_params \in {"fast", "best", "grayscale", "jpeg", "jpeg2000"}
                THEN "preset_" \o user_convert_params
                ELSE user_convert_params
  IN IF chosen = "" THEN "preset_best" ELSE chosen

\* rebuild_and_merge up to starmap_async(do_rebuild, ...)
RebuildSelectParams ==
  /\ pdf2ocr.pc = "rebuild_and_merge"
  /\ LET rebuild_list == sorted(DOMAIN pdf2ocr.images)
         result_check_img == [i \in DOMAIN rebuild_list |->
                                do_check_img_greyscale(pdf2ocr.images[rebuild_list[i]])]
         smart == pdf2ocr.user_convert_params = "smart"
         user_convert_params ==
           IF ~smart THEN pdf2ocr.user_convert_params
           ELSE IF \A i \in DOMAIN result_check_img : result_check_img[i] THEN "best"
           ELSE "jpeg"
     IN pdf2ocr' = [pdf2ocr EXCEPT
          !.result_check_img = IF smart THEN result_check_img ELSE <<>>,
          !.user_convert_params = user_convert_params,
          !.rebuild_jobs = [i \in DOMAIN rebuild_list |->
                              [page |-> rebuild_list[i],
                               convert_params |-> convert_params(user_convert_params)]],
          !.pc = "do_rebuild"]
  /\ UNCHANGED batch

\* The do_rebuild jobs: convert writes REBUILD_<image>.pdf or fails
RebuildPages ==
  /\ pdf2ocr.pc = "do_rebuild"
  /\ \E written \in SUBSET DOMAIN pdf2ocr.rebuild_jobs :
       pdf2ocr' = [pdf2ocr EXCEPT !.rebuilt = {pdf2ocr.rebuild_jobs[i] : i \in written},
                                  !.pc = "rebuilt_pdf_file_list"]
  /\ UNCHANGED batch

\* rebuild_and_merge from rebuilt_pdf_file_list to -input_unprotected.pdf
RebuildAggregate ==
  /\ pdf2ocr.pc = "rebuilt_pdf_file_list"
  /\ IF Cardinality(pdf2ocr.rebuilt) > 0
     THEN pdf2ocr' = [pdf2ocr EXCEPT !.input_unprotected = pdf_merger(pdf2ocr.rebuilt),
                                     !.pc = "_merge_ocr"]
     ELSE pdf2ocr' = [pdf2ocr EXCEPT !.pc = "raised",
                                     !.error = "No PDF files generated after image rebuilding"]
  /\ UNCHANGED batch

NextRebuild == RebuildJoinOcredPdf \/ RebuildSelectParams \/ RebuildPages \/ RebuildAggregate

SpecRebuild == InitRebuild /\ [][NextRebuild]_vars

\* The sequence q has exactly the files of the set, one page each, in
\* ascending order of their page identifiers.
InPageOrder(q, files) ==
  /\ Len(q) = Cardinality(files)
  /\ {q[i] : i \in DOMAIN q} = files
  /\ \A i \in 1..(Len(q) - 1) : q[i].page < q[i + 1].page

\* C17: once join_ocred_pdf has acted, N >= 1 page PDFs have become the N
\* pages of -ocr.pdf in ascending order of their identifiers, and with no page
\* PDF the document has failed and there is no -ocr.pdf; the same holds of
\* the rebuilt PDFs and -input_unprotected.pdf once they were gathered.
C17_AggregateHasEveryPageInOrder ==
  /\ pdf2ocr.pc # "join_ocred_pdf" =>
       IF pdf2ocr.pdfs # {}
       THEN InPageOrder(pdf2ocr.ocr_pdf, pdf2ocr.pdfs)
       ELSE /\ pdf2ocr.pc = "raised" /\ pdf2ocr.ocr_pdf = <<>>
            /\ pdf2ocr.error = "No PDF files generated after OCR"
  /\ pdf2ocr.pc \in {"_merge_ocr", "raised"} /\ pdf2ocr.rebuild_jobs # <<>> =>
       IF pdf2ocr.rebuilt # {}
       THEN pdf2ocr.pc = "_merge_ocr" /\ InPageOrder(pdf2ocr.input_unprotected, pdf2ocr.rebuilt)
       ELSE /\ pdf2ocr.pc = "raised" /\ pdf2ocr.input_unprotected = <<>>
            /\ pdf2ocr.error = "No PDF files generated after image rebuilding"

\* Witness of C17: two page PDFs were joined and, of two rebuild jobs, the
\* one PDF written became the only page of -input_unprotected.pdf.
C17_Witness ==
  /\ pdf2ocr.pc = "_merge_ocr"
  /\ Len(pdf2ocr.ocr_pdf) = 2 /\ pdf2ocr.ocr_pdf[1].page = 1
  /\ Len(pdf2ocr.rebuild_jobs) = 2
  /\ Len(pdf2ocr.input_unprotected) = 1 /\ pdf2ocr.input_unprotected[1].page = 2

\* C19: with -g smart every image was checked, the parameters are those of
\* preset_best when the three channels of every image are equal and those of
\* preset_jpeg when an image has a channel that differs, and every do_rebuild
\* job and every rebuilt PDF of the document has these parameters.
C19_SmartPresetChosenOnce ==
  pdf2ocr.convert_params_option = "smart" /\ pdf2ocr.pc \in {"do_rebuild", "rebuilt_pdf_file_list", "_merge_ocr", "raised"}
    /\ pdf2ocr.error # "No PDF files generated after OCR" =>
    LET ims == pdf2ocr.images
        preset == IF \A x \in DOMAIN ims : ims[x][1] = ims[x][2] /\ ims[x][2] = ims[x][3]
                  THEN "preset_best" ELSE "preset_jpeg"
    IN /\ Len(pdf2ocr.result_check_img) = Len(ims)
       /\ {j.page : j \in {pdf2ocr.rebuild_jobs[i] : i \in DOMAIN pdf2ocr.rebuild_jobs}} = DOMAIN ims
       /\ \A i \in DOMAIN pdf2ocr.rebuild_jobs : pdf2ocr.rebuild_jobs[i].convert_params = preset
       /\ \A f \in pdf2ocr.rebuilt : f.convert_params = preset

\* Witness of C19: a smart rebuild of a grey page and a page whose third
\* channel alone differs wrote both pages with preset_jpeg.
C19_Witness ==
  /\ pdf2ocr.pc = "_merge_ocr" /\ pdf2ocr.convert_params_option = "smart"
  /\ pdf2ocr.images = << <<0, 0, 0>>, <<0, 0, 1>> >>
  /\ Len(pdf2ocr.input_unprotected) = 2
  /\ pdf2ocr.input_unprotected[1].convert_params = "preset_jpeg"

(***************************************************************************)
(* edit_producer on its own (specification SpecProducer): the document     *)
(* information of the input, held in pdf2ocr, and the one written.         *)
(***************************************************************************)

our_name == "PDF2PDFOCR(github.com/LeoFCardoso/pdf2pdfocr)"

MetadataKeys == {"/Producer", "/Title", "/Keywords"}

\* Values of a document information entry as PyPDF2 reads them: text, a byte
\* string (printable is what is left of it in string.printable), an array, a
\* number.
MetadataValues ==
  {[type |-> "TextStringObject", text |-> "Acme"],
   [type |-> "ByteStringObject", text |-> "Ac\\xffme", printable |-> "Acme"],
   [type |-> "ArrayObject", text |-> "[1 2]"],
   [type |-> "NumberObject", text |-> "7"]}

\* input_file_metadata is None for an encrypted input and for an input that
\* is not a PDF; otherwise it has some of the keys.
InitProducer ==
  /\ NoBatch
  /\ \E has \in BOOLEAN : \E keys \in SUBSET MetadataKeys : \E m \in [keys -> MetadataValues] :
       /\ ~has => keys = {}
       /\ pdf2ocr = [pc |-> "edit_producer",
                     has_metadata |-> has,         \* input_file_metadata is not None
                     input_file_metadata |-> m,
                     info_dict_output |-> <<>>,    \* key -> string written
                     not_copied |-> {},            \* keys of the warnings printed
                     output_written |-> FALSE]

\* type(value) is str or bytes: value + "; " + our_name and
\* createStringObject(value) raise TypeError for the others
is_string(value) == value.type \in {"TextStringObject", "ByteStringObject"}

\* The Producer written for a Producer of the source that is a string
producer_value(value) ==
  (IF value.type = "ByteStringObject" THEN value.printable ELSE value.text) \o "; " \o our_name

\* edit_producer
ProducerEdit ==
  /\ pdf2ocr.pc = "edit_producer"
  /\ LET m == pdf2ocr.input_file_metadata
         producer_key == "/Producer"
         read_producer == producer_key \in DOMAIN m
         copied == {key \in DOMAIN m : is_string(m[key])}
     IN IF read_producer /\ ~is_string(m[producer_key])
        THEN \* value + "; " + our_name is outside the try: the TypeError leaves ocr()
             pdf2ocr' = [pdf2ocr EXCEPT !.pc = "TypeError"]
        ELSE pdf2ocr' = [pdf2ocr EXCEPT
               !.info_dict_output =
                  [key \in copied \cup {producer_key} |->
                     IF key = producer_key
                     THEN IF read_producer THEN producer_value(m[key]) ELSE our_name
                     ELSE m[key].text],
               !.not_copied = DOMAIN m \ copied,
               !.output_written = TRUE,
               !.pc = "cleanup"]
  /\ UNCHANGED batch

NextProducer == ProducerEdit

SpecProducer == InitProducer /\ [][NextProducer]_vars

\* C20: once edit_producer has acted the output is written, whatever the
\* entries of the source; it has a Producer entry, made of the source's value,
\* "; " and the signature when the source has a Producer that is a string and
\* of the signature alone when the source has none; every other entry that is
\* a string is copied unchanged, and the others are left out with a warning.
C20_ProducerWrittenOnceNeverFails ==
  pdf2ocr.pc # "edit_producer" =>
    LET m == pdf2ocr.input_file_metadata
        out == pdf2ocr.info_dict_output
        strings == {k \in DOMAIN m : m[k].type \in {"TextStringObject", "ByteStringObject"}}
    IN /\ pdf2ocr.pc = "cleanup" /\ pdf2ocr.output_written
       /\ "/Producer" \in DOMAIN out
       /\ "/Producer" \in strings =>
            out["/Producer"] = (IF m["/Producer"].type = "ByteStringObject"
                                THEN m["/Producer"].printable ELSE m["/Producer"].text)
                               \o "; PDF2PDFOCR(github.com/LeoFCardoso/pdf2pdfocr)"
       /\ "/Producer" \notin DOMAIN m => out["/Producer"] = "PDF2PDFOCR(github.com/LeoFCardoso/pdf2pdfocr)"
       /\ \A k \in strings \ {"/Producer"} : k \in DOMAIN out /\ out[k] = m[k].text
       /\ \A k \in DOMAIN m \ strings : k = "/Producer" \/ k \notin DOMAIN out
       /\ pdf2ocr.not_copied = DOMAIN m \ strings

(***************************************************************************)
(* HocrTransform: the page and the text objects that to_pdf makes from an  *)
(* hOCR file (specification SpecHocr). Pixel coordinates are multiples of  *)
(* 25 and the resolutions divide 25 * 72, so that c / dpi * inch is a      *)
(* whole number of points. A text is a sequence of characters.             *)
(***************************************************************************)
MaxPageDivs == 2
MaxSpans == 2

\* reportlab.lib.units.inch
inch == 72

Dpis == {150, 300}

\* bbox x1 y1 x2 y2 of a div of class ocr_page: x grows to the right and y
\* grows downwards, so y1 is the top edge and y2 the bottom edge.
PageBoxes == {<<0, 0, 100, 150>>, <<25, 25, 100, 100>>}

\* bbox of a span; the second has no height.
SpanBoxes == {<<25, 25, 75, 50>>, <<0, 50, 50, 50>>, <<25, 50, 50, 100>>}

\* "<fi>" stands for the ligature U+FB01.
SpanTexts == {<<" ">>, <<"a", " ">>, <<"<fi>">>}

HocrSpans == [class : {"ocrx_word", "ocr_line"}, bbox : SpanBoxes, text : SpanTexts]

SeqsUpTo(S, n) == UNION {[1..k -> S] : k \in 0..n}

InitHocr ==
  /\ NoBatch /\ env = AllTools
  /\ \E dpi \in Dpis, divs \in SeqsUpTo(PageBoxes, MaxPageDivs),
        spans \in SeqsUpTo(HocrSpans, MaxSpans) :
       pdf2ocr = [pc |-> "__init__", dpi |-> dpi, ocr_page |-> divs, spans |-> spans,
                  width |-> -1, height |-> -1, elem |-> 1, texts |-> <<>>,
                  pagesize |-> <<-1, -1>>]

\* HocrTransform.pt_from_pixel, of a rectangle
pt_from_pixel(pxl, dpi) == [n \in 1..4 |-> (pxl[n] * inch) \div dpi]

\* str.rstrip()
RECURSIVE rstrip(_)
rstrip(t) ==
  IF t # <<>> /\ t[Len(t)] = " " THEN rstrip(SubSeq(t, 1, Len(t) - 1)) ELSE t

\* HocrTransform.replace_unsupported_chars
RECURSIVE replace_unsupported_chars(_)
replace_unsupported_chars(t) ==
  IF t = <<>> THEN <<>>
  ELSE (IF Head(t) = "<fi>" THEN <<"f", "i">>
        ELSE IF Head(t) = "<fl>" THEN <<"f", "l">> ELSE <<Head(t)>>)
       \o replace_unsupported_chars(Tail(t))

\* to_pdf, the class of the elements it draws: words if the file has any,
\* lines otherwise.
elemclass(spans) ==
  IF \E k \in DOMAIN spans : spans[k].class = "ocrx_word" THEN "ocrx_word" ELSE "ocr_line"

\* pdf.stringWidth(elemtxt, fontname, fontsize), in units of a mean glyph
\* width: proportional to the font size.
stringWidth(t, fontsize) == Len(t) * fontsize

\* text.setTextOrigin, with the top edge of the box in place of the bottom.
text_origin_top(pt, height) == <<pt[1], height - pt[2]>>

\* text.setTextOrigin(pt.x1, self.height - pt.y2)
text_origin(pt, height) == <<pt[1], height - pt[4]>>

\* HocrTransform.__init__: the size of the first div of class ocr_page.
HocrTransformInit ==
  /\ pdf2ocr.pc = "__init__"
  /\ pdf2ocr' =
       IF pdf2ocr.ocr_page = <<>>
       THEN [pdf2ocr EXCEPT !.pc = "HocrTransformError"]
       ELSE LET pt_coords == pt_from_pixel(pdf2ocr.ocr_page[1], pdf2ocr.dpi)
            IN [pdf2ocr EXCEPT !.width = pt_coords[3] - pt_coords[1],
                               !.height = pt_coords[4] - pt_coords[2],
                               !.pc = "to_pdf"]
  /\ UNCHANGED batch

\* to_pdf, one round of the loop over the spans.
ToPdfSpan ==
  /\ pdf2ocr.pc = "to_pdf" /\ pdf2ocr.elem <= Len(pdf2ocr.spans)
  /\ LET e == pdf2ocr.spans[pdf2ocr.elem]
         elemtxt == replace_unsupported_chars(rstrip(e.text))
         pt == pt_from_pixel(e.bbox, pdf2ocr.dpi)
         fontsize == pt[4] - pt[2]
         origin == text_origin(pt, pdf2ocr.height)
     IN pdf2ocr' =
          IF e.class # elemclass(pdf2ocr.spans) \/ Len(elemtxt) = 0
          THEN [pdf2ocr EXCEPT !.elem = @ + 1]
          ELSE IF stringWidth(elemtxt, fontsize) = 0
          THEN \* 100 * (pt.x2 - pt.x1) / 0.0
               [pdf2ocr EXCEPT !.pc = "ZeroDivisionError"]
          ELSE [pdf2ocr EXCEPT
                  !.elem = @ + 1,
                  !.texts = Append(@, [span |-> pdf2ocr.elem, text |-> elemtxt,
                                       x |-> origin[1], y |-> origin[2],
                                       fontsize |-> fontsize,
                                       horiz_scale |-> <<100 * (pt[3] - pt[1]),
                                                        stringWidth(elemtxt, fontsize)>>])]
  /\ UNCHANGED batch

\* to_pdf: pdf.showPage(); pdf.save()
ToPdfSave ==
  /\ pdf2ocr.pc = "to_pdf" /\ pdf2ocr.elem > Len(pdf2ocr.spans)
  /\ pdf2ocr' = [pdf2ocr EXCEPT !.pc = "saved", !.pagesize = <<pdf2ocr.width, pdf2ocr.height>>]
  /\ UNCHANGED batch

NextHocr == HocrTransformInit \/ ToPdfSpan \/ ToPdfSave

SpecHocr == InitHocr /\ [][NextHocr]_vars

\* The span k of the file is one that to_pdf draws: of the class it iterates
\* over, with text left after rstrip.
NonEmptySpan(k) ==
  /\ pdf2ocr.spans[k].class = elemclass(pdf2ocr.spans)
  /\ rstrip(pdf2ocr.spans[k].text) # <<>>

\* The text objects made for span k.
TextsOf(k) == {j \in DOMAIN pdf2ocr.texts : pdf2ocr.texts[j].span = k}

\* The page has the size of the first page-level box, each in points.
PageIsFirstBox ==
  LET b == pdf2ocr.ocr_page[1]
  IN pdf2ocr.pagesize = <<((b[3] - b[1]) * inch) \div pdf2ocr.dpi,
                          ((b[4] - b[2]) * inch) \div pdf2ocr.dpi>>

MaxBatch == 2

\* Files found by os.walk under the input directory "in".
InputPaths ==
  {<<"in", "a", ".pdf">>, <<"in", "a", ".tif">>, <<"in/sub", "a", ".pdf">>, <<"in", "b", ".pdf">>}

\* args.output_file is None; for args.output_dir the model has "".
None == <<>>

\* -o, -O and -s of the command line.
OutputOptions ==
  [output_file : {None, <<"out", "all", ".pdf">>, <<"in", "a", ".pdf">>},
   output_dir : {"", "out"},
   safe_mode : BOOLEAN]

Source(p) == [path |-> p, content |-> <<"source", p>>]

OcrOf(p, out) == [path |-> out, content |-> <<"ocr", p>>]

\* file_to_process_list: one file, or the files of the walk in its order.
Batches ==
  {b \in SeqsUpTo(InputPaths, MaxBatch) :
     b # <<>> /\ \A j, k \in DOMAIN b : j # k => b[j] # b[k]}

InitPaths ==
  /\ NoBatch /\ env = AllTools
  /\ \E b \in Batches, o \in OutputOptions :
       pdf2ocr = [pc |-> "loop", files |-> b, opts |-> o, i |-> 1,
                  output_file |-> None,
                  fs |-> {Source(b[k]) : k \in DOMAIN b},
                  status |-> [k \in DOMAIN b |-> "pending"],
                  wrote |-> [k \in DOMAIN b |-> None]]

isfile(fs, p) == \E f \in fs : f.path = p

\* os.remove, ENOENT ignored
best_effort_remove(fs, p) == {f \in fs : f.path # p}

\* define_output_files: self.output_file
output_file(o, input_file) ==
  IF o.output_file # None THEN o.output_file
  ELSE LET output_dir == IF o.output_dir # "" THEN o.output_dir ELSE input_file[1]
       IN <<output_dir, input_file[2] \o "-OCR", ".pdf">>

\* The exception of the document at hand reaches the batch loop.
PathRaise == [pdf2ocr EXCEPT !.status[pdf2ocr.i] = "failed", !.i = @ + 1, !.pc = "loop"]

\* Pdf2PdfOcr(pdf2ocr_args, file_to_process)
PathConstruct ==
  /\ pdf2ocr.pc = "loop" /\ pdf2ocr.i <= Len(pdf2ocr.files)
  /\ pdf2ocr' =
       IF \/ pdf2ocr.opts.output_file # None /\ pdf2ocr.opts.output_dir # ""
          \/ ~isfile(pdf2ocr.fs, pdf2ocr.files[pdf2ocr.i])
       THEN PathRaise
       ELSE [pdf2ocr EXCEPT !.pc = "define_output_files"]
  /\ UNCHANGED batch

PathDefineOutputFiles ==
  /\ pdf2ocr.pc = "define_output_files"
  /\ LET out == output_file(pdf2ocr.opts, pdf2ocr.files[pdf2ocr.i])
     IN pdf2ocr' =
          IF pdf2ocr.opts.safe_mode /\ isfile(pdf2ocr.fs, out)
          THEN [PathRaise EXCEPT !.output_file = out]
          ELSE [pdf2ocr EXCEPT !.output_file = out, !.pc = "initial_cleanup"]
  /\ UNCHANGED batch

PathInitialCleanup ==
  /\ pdf2ocr.pc = "initial_cleanup"
  /\ pdf2ocr' = [pdf2ocr EXCEPT !.fs = best_effort_remove(@, pdf2ocr.output_file),
                                !.pc = "convert_input_to_images"]
  /\ UNCHANGED batch

\* convert_input_to_images reads the input: pdftoppm or convert returns a
\* code other than 0 for a file that is not there.
PathConvertInputToImages ==
  /\ pdf2ocr.pc = "convert_input_to_images"
  /\ pdf2ocr' = IF isfile(pdf2ocr.fs, pdf2ocr.files[pdf2ocr.i])
                THEN [pdf2ocr EXCEPT !.pc = "edit_producer"]
                ELSE PathRaise
  /\ UNCHANGED batch

\* edit_producer: open(self.output_file, 'wb'), then ocr() returns.
PathEditProducer ==
  /\ pdf2ocr.pc = "edit_producer"
  /\ pdf2ocr' = [pdf2ocr EXCEPT
                   !.fs = best_effort_remove(@, pdf2ocr.output_file)
                            \cup {OcrOf(pdf2ocr.files[pdf2ocr.i], pdf2ocr.output_file)},
                   !.status[pdf2ocr.i] = "ok", !.wrote[pdf2ocr.i] = pdf2ocr.output_file,
                   !.i = @ + 1, !.pc = "loop"]
  /\ UNCHANGED batch

PathFinish ==
  /\ pdf2ocr.pc = "loop" /\ pdf2ocr.i > Len(pdf2ocr.files)
  /\ pdf2ocr' = [pdf2ocr EXCEPT !.pc = "exited"]
  /\ UNCHANGED batch

NextPaths ==
  \/ PathConstruct \/ PathDefineOutputFiles \/ PathInitialCleanup
  \/ PathConvertInputToImages \/ PathEditProducer \/ PathFinish

SpecPaths == InitPaths /\ [][NextPaths]_vars

\* C23: no step of the pipeline of a document removes or replaces the input
\* file of that document: the file at the input path is the same before and
\* after every step taken for it.
C23_InputFileNeverTouched ==
  [][pdf2ocr.pc \notin {"loop", "exited"} =>
       \A f \in pdf2ocr.fs :
         f.path = pdf2ocr.files[pdf2ocr.i] => f \in pdf2ocr'.fs]_vars

\* C24: when the batch has ended, every input that succeeded has the OCR
\* output written from it at the path it was written to, and no two inputs
\* that succeeded were written to the same output path.
C24_EveryInputItsOwnOutput ==
  pdf2ocr.pc = "exited" =>
    /\ \A k \in DOMAIN pdf2ocr.files :
         pdf2ocr.status[k] = "ok" =>
           OcrOf(pdf2ocr.files[k], pdf2ocr.wrote[k]) \in pdf2ocr.fs
    /\ \A j, k \in DOMAIN pdf2ocr.files :
         j # k /\ pdf2ocr.status[j] = "ok" /\ pdf2ocr.status[k] = "ok"
           => pdf2ocr.wrote[j] # pdf2ocr.wrote[k]


(***************************************************************************)
(* Pdf2PdfOcr.cleanup called more than once for one object (specification  *)
(* SpecCleanup): by the fatal path of a stage ("ocr"), by the handler of   *)
(* futures.TimeoutError ("timeout") and by sigint_handler ("sigint"). With *)
(* --timeout ocr() runs in the thread of the executor and the two handlers *)
(* in the main thread; without it all run in the main thread. A statement  *)
(* of cleanup is one step, and every statement reads self.main_pool anew.  *)
(***************************************************************************)
Callers == {"ocr", "timeout", "sigint"}

InitCleanup ==
  /\ NoBatch /\ env = AllTools
  /\ \E k \in BOOLEAN, t \in BOOLEAN :
       pdf2ocr = [delete_temps |-> ~k, timeout |-> t,
                  main_pool |-> "Pool",        \* self.main_pool: the pool or None
                  pool_state |-> "RUN",        \* Pool._state
                  terminated_by |-> "",        \* the caller whose terminate() came first
                  tmp_dir |-> "exists",
                  pc |-> [c \in Callers |-> "idle"],
                  retouched |-> FALSE,         \* a pool method ran on a pool another call terminated
                  first_tmp_dir |-> "",        \* tmp_dir when the first call returned
                  exited |-> FALSE]

\* The caller that runs in the main thread apart from the signal handler.
MainCaller(o) == IF o.timeout THEN "timeout" ELSE "ocr"

\* The thread of caller c can take a step: the process has not exited, and
\* the main thread is not inside the signal handler.
CanRun(o, c) ==
  /\ ~o.exited
  /\ c = "sigint" \/ c # MainCaller(o) \/ o.pc["sigint"] = "idle"

\* A call of cleanup(): the timeout handler only with --timeout and while
\* ocr() has not ended, the signal handler at any time.
CleanupInvoke ==
  /\ \E c \in Callers :
       /\ CanRun(pdf2ocr, c) /\ pdf2ocr.pc[c] = "idle"
       /\ c = "timeout" => pdf2ocr.timeout /\ pdf2ocr.pc["ocr"] # "returned"
       /\ pdf2ocr' = [pdf2ocr EXCEPT !.pc[c] = "kill"]
  /\ UNCHANGED batch

\* self.main_pool.close(), .terminate() or .join() by caller c, then on to pc next
pool_call(o, c, method, next) ==
  IF o.main_pool = "None"
  THEN [o EXCEPT !.pc[c] = "AttributeError"]
  ELSE [o EXCEPT
          !.pool_state = IF method = "close" THEN (IF @ = "RUN" THEN "CLOSE" ELSE @)
                         ELSE IF method = "terminate" THEN "TERMINATE" ELSE @,
          !.terminated_by = IF method = "terminate" /\ @ = "" THEN c ELSE @,
          !.retouched = @ \/ (o.terminated_by # "" /\ o.terminated_by # c),
          !.pc[c] = next]

\* The next statement of cleanup() for caller c.
cleanup_step(o, c) ==
  LET at == o.pc[c]
  IN CASE at = "kill" -> [o EXCEPT !.pc[c] = "if_main_pool"]
       [] at = "if_main_pool" ->
            [o EXCEPT !.pc[c] = IF o.main_pool = "None" THEN "temps" ELSE "close"]
       [] at = "close" -> pool_call(o, c, "close", "terminate")
       [] at = "terminate" -> pool_call(o, c, "terminate", "join")
       [] at = "join" -> pool_call(o, c, "join", "set_none")
       [] at = "set_none" -> [o EXCEPT !.main_pool = "None", !.pc[c] = "temps"]
       [] at = "temps" ->
            LET t == IF o.delete_temps THEN "removed" ELSE o.tmp_dir
            IN [o EXCEPT !.tmp_dir = t,
                         !.first_tmp_dir = IF @ = "" THEN t ELSE @,
                         !.pc[c] = "returned"]
       [] OTHER -> o

CleanupStep ==
  /\ \E c \in Callers :
       /\ CanRun(pdf2ocr, c)
       /\ pdf2ocr.pc[c] \notin {"idle", "returned", "AttributeError"}
       /\ pdf2ocr' = cleanup_step(pdf2ocr, c)
  /\ UNCHANGED batch

\* sigint_handler: sys.exit(1) after cleanup() returned
SigintExit ==
  /\ ~pdf2ocr.exited /\ pdf2ocr.pc["sigint"] = "returned"
  /\ pdf2ocr' = [pdf2ocr EXCEPT !.exited = TRUE]
  /\ UNCHANGED batch

NextCleanup == CleanupInvoke \/ CleanupStep \/ SigintExit

SpecCleanup == InitCleanup /\ [][NextCleanup]_vars

\* C30: no call of cleanup raises, no call runs a method of a pool that
\* another call has terminated, and after the first call has returned the
\* workspace stays as that call left it.
C30_CleanupIdempotent ==
  /\ \A c \in Callers : pdf2ocr.pc[c] # "AttributeError"
  /\ ~pdf2ocr.retouched
  /\ pdf2ocr.first_tmp_dir # "" => pdf2ocr.tmp_dir = pdf2ocr.first_tmp_dir


====
